---- MODULE Spec2Model ----
(***************************************************************************)
(* Model of DataTransformer.processMasterData, the reconciliation and      *)
(* aggregation engine, in its two revisions:                               *)
(*   src/unnamed/part_001      (guardian map, details, no pass-1 fallback) *)
(*   src/utils/transformers.ts (pass-1 fallback from demands/collections)  *)
(* JavaScript strings are tuples of one-character strings, so that trim,   *)
(* toUpperCase, includes and length are computed, not assumed.             *)
(***************************************************************************)
EXTENDS Integers, Sequences, FiniteSets, TLC

(***************************************************************************)
(* Strings                                                                 *)
(***************************************************************************)
\* c.toUpperCase() and c.toLowerCase() of the letters
UpperOf ==
    "a" :> "A" @@ "b" :> "B" @@ "c" :> "C" @@ "d" :> "D" @@ "e" :> "E" @@ "f" :> "F" @@
    "g" :> "G" @@ "h" :> "H" @@ "i" :> "I" @@ "j" :> "J" @@ "k" :> "K" @@ "l" :> "L" @@
    "m" :> "M" @@ "n" :> "N" @@ "o" :> "O" @@ "p" :> "P" @@ "q" :> "Q" @@ "r" :> "R" @@
    "s" :> "S" @@ "t" :> "T" @@ "u" :> "U" @@ "v" :> "V" @@ "w" :> "W" @@ "x" :> "X" @@
    "y" :> "Y" @@ "z" :> "Z"

LowerOf ==
    "A" :> "a" @@ "B" :> "b" @@ "C" :> "c" @@ "D" :> "d" @@ "E" :> "e" @@ "F" :> "f" @@
    "G" :> "g" @@ "H" :> "h" @@ "I" :> "i" @@ "J" :> "j" @@ "K" :> "k" @@ "L" :> "l" @@
    "M" :> "m" @@ "N" :> "n" @@ "O" :> "o" @@ "P" :> "p" @@ "Q" :> "q" @@ "R" :> "r" @@
    "S" :> "s" @@ "T" :> "t" @@ "U" :> "u" @@ "V" :> "v" @@ "W" :> "w" @@ "X" :> "x" @@
    "Y" :> "y" @@ "Z" :> "z"

Digits == {"0", "1", "2", "3", "4", "5", "6", "7", "8", "9"}
DigitSeq == <<"0", "1", "2", "3", "4", "5", "6", "7", "8", "9">>

IsWhite(c) == c \in {" ", "\t", "\n"}

IndexIn(c, seq) == CHOOSE i \in 1..Len(seq) : seq[i] = c

ToUpperChar(c) == IF c \in DOMAIN UpperOf THEN UpperOf[c] ELSE c

ToLowerChar(c) == IF c \in DOMAIN LowerOf THEN LowerOf[c] ELSE c

toUpperCase(s) == [i \in 1..Len(s) |-> ToUpperChar(s[i])]
toLowerCase(s) == [i \in 1..Len(s) |-> ToLowerChar(s[i])]

RECURSIVE TrimStart(_)
TrimStart(s) == IF s # << >> /\ IsWhite(Head(s)) THEN TrimStart(Tail(s)) ELSE s

RECURSIVE TrimEnd(_)
TrimEnd(s) ==
    IF s # << >> /\ IsWhite(s[Len(s)]) THEN TrimEnd(SubSeq(s, 1, Len(s) - 1)) ELSE s

trim(s) == TrimEnd(TrimStart(s))

\* s.replace(/\s+/g, '')
StripWhite(s) == SelectSeq(s, LAMBDA c : ~IsWhite(c))

\* s.includes(sub)
includes(s, sub) ==
    \E i \in 0..(Len(s) - Len(sub)) : SubSeq(s, i + 1, i + Len(sub)) = sub

RECURSIVE DigitsOf(_)
DigitsOf(n) ==
    IF n < 10 THEN <<DigitSeq[n + 1]>> ELSE DigitsOf(n \div 10) \o <<DigitSeq[(n % 10) + 1]>>

\* String(n) for an integer n
NumToString(n) == IF n < 0 THEN <<"-">> \o DigitsOf(-n) ELSE DigitsOf(n)

(***************************************************************************)
(* JavaScript values: null, undefined (an absent field), strings, numbers  *)
(***************************************************************************)
Null == [t |-> "null", s |-> << >>, n |-> 0]
Undefined == [t |-> "undefined", s |-> << >>, n |-> 0]
NaN == [t |-> "nan", s |-> << >>, n |-> 0]
Str(s) == [t |-> "str", s |-> s, n |-> 0]
Num(n) == [t |-> "num", s |-> << >>, n |-> n]

\* String(v)
String(v) ==
    CASE v.t = "str" -> v.s
      [] v.t = "num" -> NumToString(v.n)
      [] v.t = "nan" -> <<"N", "a", "N">>
      [] v.t = "null" -> <<"n", "u", "l", "l">>
      [] OTHER -> <<"u", "n", "d", "e", "f", "i", "n", "e", "d">>

\* !!v
Truthy(v) ==
    CASE v.t = "str" -> v.s # << >>
      [] v.t = "num" -> v.n # 0
      [] OTHER -> FALSE

\* a || b
Or(a, b) == IF Truthy(a) THEN a ELSE b

IsDigitsOpt(s) == \A i \in 1..Len(s) : s[i] \in Digits
IsDigits(s) == s # << >> /\ IsDigitsOpt(s)

\* StrDecimalLiteral without sign and exponent: digits, digits. , digits.digits, .digits
IsMantissa(s) ==
    \/ IsDigits(s)
    \/ \E k \in 1..Len(s) :
          /\ s[k] = "."
          /\ IsDigitsOpt(SubSeq(s, 1, k - 1))
          /\ IsDigitsOpt(SubSeq(s, k + 1, Len(s)))
          /\ Len(s) > 1

Unsigned(s) == IF s # << >> /\ Head(s) \in {"+", "-"} THEN Tail(s) ELSE s

IsExponent(s) ==
    \/ s = << >>
    \/ s # << >> /\ Head(s) \in {"e", "E"} /\ IsDigits(Unsigned(Tail(s)))

IsPrefixedInt(s, letters, digs) ==
    /\ Len(s) > 2
    /\ s[1] = "0"
    /\ s[2] \in letters
    /\ \A i \in 3..Len(s) : s[i] \in digs

\* !isNaN(Number(s)) for a string s (StringToNumber of the trimmed text)
IsNumericString(s) ==
    LET t == trim(s)
        u == Unsigned(t)
    IN  \/ t = << >>
        \/ u = <<"I", "n", "f", "i", "n", "i", "t", "y">>
        \/ \E k \in 0..Len(u) :
              IsMantissa(SubSeq(u, 1, k)) /\ IsExponent(SubSeq(u, k + 1, Len(u)))
        \/ IsPrefixedInt(t, {"x", "X"}, Digits \cup {"a", "b", "c", "d", "e", "f",
                                                       "A", "B", "C", "D", "E", "F"})
        \/ IsPrefixedInt(t, {"o", "O"}, {"0", "1", "2", "3", "4", "5", "6", "7"})
        \/ IsPrefixedInt(t, {"b", "B"}, {"0", "1"})


(***************************************************************************)
(* Rows: records whose fields are JavaScript values.  Object.keys(row) is  *)
(* the row's fields in column order.                                       *)
(***************************************************************************)
KeyOrder ==
    <<"Citizen", "id", "assessment_no", "owner_name", "name", "payer_name",
      "guardian_name", "father_name", "Father_name", "cluster_id", "mobile_no",
      "plot_area", "stage", "remarks", "created_at", "Updated_At", "total_demand",
      "total_tax">>

\* the text of a field name
KeyChars(k) ==
    CASE k = "Citizen" -> <<"C", "i", "t", "i", "z", "e", "n">>
      [] k = "id" -> <<"i", "d">>
      [] k = "assessment_no" -> <<"a", "s", "s", "e", "s", "s", "m", "e", "n", "t", "_", "n", "o">>
      [] k = "owner_name" -> <<"o", "w", "n", "e", "r", "_", "n", "a", "m", "e">>
      [] k = "name" -> <<"n", "a", "m", "e">>
      [] k = "payer_name" -> <<"p", "a", "y", "e", "r", "_", "n", "a", "m", "e">>
      [] k = "guardian_name" -> <<"g", "u", "a", "r", "d", "i", "a", "n", "_", "n", "a", "m", "e">>
      [] k = "father_name" -> <<"f", "a", "t", "h", "e", "r", "_", "n", "a", "m", "e">>
      [] k = "Father_name" -> <<"F", "a", "t", "h", "e", "r", "_", "n", "a", "m", "e">>
      [] k = "cluster_id" -> <<"c", "l", "u", "s", "t", "e", "r", "_", "i", "d">>
      [] k = "mobile_no" -> <<"m", "o", "b", "i", "l", "e", "_", "n", "o">>
      [] k = "plot_area" -> <<"p", "l", "o", "t", "_", "a", "r", "e", "a">>
      [] k = "stage" -> <<"s", "t", "a", "g", "e">>
      [] k = "remarks" -> <<"r", "e", "m", "a", "r", "k", "s">>
      [] k = "created_at" -> <<"c", "r", "e", "a", "t", "e", "d", "_", "a", "t">>
      [] k = "Updated_At" -> <<"U", "p", "d", "a", "t", "e", "d", "_", "A", "t">>
      [] k = "total_demand" -> <<"t", "o", "t", "a", "l", "_", "d", "e", "m", "a", "n", "d">>
      [] k = "total_tax" -> <<"t", "o", "t", "a", "l", "_", "t", "a", "x">>

\* obj[k], undefined when the field is absent
Get(obj, k) == IF k \in DOMAIN obj THEN obj[k] ELSE Undefined

\* Object.keys(obj)
Keys(obj) == SelectSeq(KeyOrder, LAMBDA k : k \in DOMAIN obj)

(***************************************************************************)
(* DataTransformer helpers                                                 *)
(***************************************************************************)
noise == {
    <<"u", "n", "n", "a", "m", "e", "d">>,
    <<"u", "n", "k", "n", "o", "w", "n">>,
    <<"n", "u", "l", "l">>,
    <<"n", "/", "a">>,
    <<"u", "n", "d", "e", "f", "i", "n", "e", "d">>,
    <<"0">>,
    <<"-">>,
    <<".">>,
    <<"n", "o", "n", "e">>,
    <<"f", "a", "l", "s", "e">>,
    <<"n", "a", "n">>,
    <<"o", "w", "n", "e", "r">>,
    <<"n", "u", "l", "l", " ", "v", "a", "l", "u", "e">>,
    <<"t", "b", "d">>,
    <<"m", "i", "s", "s", "i", "n", "g">>,
    <<"p", "a", "y", "e", "r">>
}

\* faulty variant of isValidName: the noise words are compared in the case they come in
isValidName_CaseSensitiveNoise(name) ==
    IF name.t \in {"null", "undefined"} THEN FALSE
    ELSE LET n == trim(String(name))
         IN  IF Len(n) <= 1 THEN FALSE
             ELSE IF IsNumericString(n) /\ Len(n) > 0 /\ Len(n) < 10 THEN FALSE
             ELSE IF includes(n, <<"[", "I", "D", ":">>) THEN FALSE
             ELSE n \notin noise

isValidName(name) ==
    IF name.t \in {"null", "undefined"} THEN FALSE
    ELSE LET n == trim(String(name))
         IN  IF Len(n) <= 1 THEN FALSE
             ELSE IF IsNumericString(n) /\ Len(n) > 0 /\ Len(n) < 10 THEN FALSE
             ELSE IF includes(n, <<"[", "I", "D", ":">>) THEN FALSE
             ELSE toLowerCase(n) \notin noise

\* faulty variant of normalizeId: without the null check, String(null) is normalized
normalizeId_NoNullCheck(id) == Str(StripWhite(toUpperCase(trim(String(id)))))

\* faulty variant of normalizeId: only the surrounding white space is removed
normalizeId_TrimOnly(id) ==
    IF id.t \in {"null", "undefined"} THEN Null
    ELSE Str(toUpperCase(trim(String(id))))

normalizeId(id) ==
    IF id.t \in {"null", "undefined"} THEN Null
    ELSE Str(StripWhite(toUpperCase(trim(String(id)))))

\* faulty variant of resolveId: the identifier as it is written in the row
resolveId_NotNormalized(obj) ==
    LET val == Or(Or(Or(Get(obj, "assessment_no"), Get(obj, "assessment_id")),
                     Get(obj, "property_id")), Get(obj, "id"))
    IN  IF val.t \in {"null", "undefined"} THEN Null ELSE Str(String(val))

resolveId(obj) ==
    LET val == Or(Or(Or(Get(obj, "assessment_no"), Get(obj, "assessment_id")),
                     Get(obj, "property_id")), Get(obj, "id"))
    IN  normalizeId(val)

\* the first value of vals that isValidName accepts, trimmed; Null when none
RECURSIVE FirstValid(_)
FirstValid(vals) ==
    IF vals = << >> THEN Null
    ELSE IF isValidName(Head(vals)) THEN Str(trim(String(Head(vals))))
    ELSE FirstValid(Tail(vals))

\* the values of the fields whose lower-cased name contains one of kws, in field order
ScanValues(obj, kws) ==
    LET hit == SelectSeq(Keys(obj),
                   LAMBDA k : \E kw \in kws : includes(toLowerCase(KeyChars(k)), kw))
    IN  [i \in 1..Len(hit) |-> obj[hit[i]]]

\* faulty variant of directCandidates: obj.name is tried before obj.owner_name
directCandidates_NameFirst ==
    <<"name", "owner_name", "owner", "full_name", "firstname", "lastname",
      "prop_owner", "citizen_name", "taxpayer_name", "payer_name", "user_name",
      "display_name">>

directCandidates ==
    <<"owner_name", "name", "owner", "full_name", "firstname", "lastname",
      "prop_owner", "citizen_name", "taxpayer_name", "payer_name", "user_name",
      "display_name">>

nameKeywords ==
    {<<"n", "a", "m", "e">>, <<"o", "w", "n", "e", "r">>, <<"c", "i", "t", "i", "z", "e", "n">>, <<"t", "a", "x", "p", "a", "y", "e", "r">>, <<"p", "a", "y", "e", "r">>, <<"f", "u", "l", "l">>, <<"p", "r", "o", "p", "_", "o", "w">>}

resolveName(obj) ==
    LET direct == FirstValid([i \in 1..Len(directCandidates) |->
                                 Get(obj, directCandidates[i])])
    IN  IF direct # Null THEN direct
        ELSE FirstValid(ScanValues(obj, nameKeywords))

guardianCandidates ==
    <<"guardian_name", "father_name", "husband_name", "guardian", "father",
      "husband", "so", "wo", "s/o", "w/o", "care_of", "co">>

guardianKeywords ==
    {<<"f", "a", "t", "h", "e", "r">>, <<"h", "u", "s", "b", "a", "n", "d">>, <<"g", "u", "a", "r", "d", "i", "a", "n">>, <<"c", "a", "r", "e", "_", "o", "f">>, <<"s", "/", "o">>, <<"w", "/", "o">>}

resolveGuardianName(obj) ==
    LET direct == FirstValid([i \in 1..Len(guardianCandidates) |->
                                 Get(obj, guardianCandidates[i])])
    IN  IF direct # Null THEN direct
        ELSE FirstValid(ScanValues(obj, guardianKeywords))

(***************************************************************************)
(* categorizeDetails                                                       *)
(***************************************************************************)
mapping == <<
    [kw |-> <<"m", "o", "b", "i", "l", "e">>, cat |-> "Owner Details"],
    [kw |-> <<"p", "h", "o", "n", "e">>, cat |-> "Owner Details"],
    [kw |-> <<"e", "m", "a", "i", "l">>, cat |-> "Owner Details"],
    [kw |-> <<"a", "d", "d", "r", "e", "s", "s">>, cat |-> "Owner Details"],
    [kw |-> <<"g", "e", "n", "d", "e", "r">>, cat |-> "Owner Details"],
    [kw |-> <<"f", "a", "t", "h", "e", "r">>, cat |-> "Owner Details"],
    [kw |-> <<"h", "u", "s", "b", "a", "n", "d">>, cat |-> "Owner Details"],
    [kw |-> <<"g", "u", "a", "r", "d", "i", "a", "n">>, cat |-> "Owner Details"],
    [kw |-> <<"s", "/", "o">>, cat |-> "Owner Details"],
    [kw |-> <<"w", "/", "o">>, cat |-> "Owner Details"],
    [kw |-> <<"c", "a", "r", "e", "_", "o", "f">>, cat |-> "Owner Details"],
    [kw |-> <<"u", "s", "a", "g", "e">>, cat |-> "Building Details"],
    [kw |-> <<"c", "o", "n", "s", "t", "r", "u", "c", "t", "i", "o", "n">>, cat |-> "Building Details"],
    [kw |-> <<"a", "g", "e">>, cat |-> "Building Details"],
    [kw |-> <<"a", "r", "e", "a">>, cat |-> "Building Details"],
    [kw |-> <<"p", "l", "o", "t">>, cat |-> "Building Details"],
    [kw |-> <<"c", "a", "t", "e", "g", "o", "r", "y">>, cat |-> "Building Details"],
    [kw |-> <<"b", "u", "i", "l", "d", "_", "u", "p">>, cat |-> "Building Details"],
    [kw |-> <<"f", "l", "o", "o", "r">>, cat |-> "Floor Details"],
    [kw |-> <<"b", "a", "s", "e", "m", "e", "n", "t">>, cat |-> "Floor Details"],
    [kw |-> <<"t", "e", "r", "r", "a", "c", "e">>, cat |-> "Floor Details"],
    [kw |-> <<"l", "e", "v", "e", "l", "s">>, cat |-> "Floor Details"],
    [kw |-> <<"m", "u", "t", "a", "t", "i", "o", "n">>, cat |-> "Mutation Details"],
    [kw |-> <<"t", "r", "a", "n", "s", "f", "e", "r">>, cat |-> "Mutation Details"],
    [kw |-> <<"r", "e", "g", "i", "s", "t", "r", "y">>, cat |-> "Mutation Details"],
    [kw |-> <<"s", "e", "l", "l", "e", "r">>, cat |-> "Mutation Details"],
    [kw |-> <<"n", "o", "r", "t", "h">>, cat |-> "Neighbouring Properties"],
    [kw |-> <<"s", "o", "u", "t", "h">>, cat |-> "Neighbouring Properties"],
    [kw |-> <<"e", "a", "s", "t">>, cat |-> "Neighbouring Properties"],
    [kw |-> <<"w", "e", "s", "t">>, cat |-> "Neighbouring Properties"],
    [kw |-> <<"b", "o", "u", "n", "d", "a", "r", "y">>, cat |-> "Neighbouring Properties"],
    [kw |-> <<"c", "r", "e", "a", "t", "e", "d">>, cat |-> "Life Cycle Details"],
    [kw |-> <<"a", "p", "p", "r", "o", "v", "e", "d">>, cat |-> "Life Cycle Details"],
    [kw |-> <<"u", "p", "d", "a", "t", "e", "d">>, cat |-> "Life Cycle Details"],
    [kw |-> <<"a", "c", "t", "i", "v", "e">>, cat |-> "Life Cycle Details"],
    [kw |-> <<"s", "t", "a", "t", "u", "s">>, cat |-> "Life Cycle Details"]
>>

coreKeys ==
    {<<"a", "s", "s", "e", "s", "s", "m", "e", "n", "t", "_", "n", "o">>, <<"o", "w", "n", "e", "r", "_", "n", "a", "m", "e">>, <<"c", "l", "u", "s", "t", "e", "r", "_", "i", "d">>, <<"i", "d">>, <<"c", "r", "e", "a", "t", "e", "d", "_", "a", "t">>,
     <<"u", "p", "d", "a", "t", "e", "d", "_", "a", "t">>}

\* w.charAt(0).toUpperCase() + w.slice(1) for each word of key.split('_'), joined by ' '
RECURSIVE DisplayKey(_, _)
DisplayKey(key, atStart) ==
    IF key = << >> THEN << >>
    ELSE IF Head(key) = "_" THEN <<" ">> \o DisplayKey(Tail(key), TRUE)
    ELSE <<IF atStart THEN ToUpperChar(Head(key)) ELSE Head(key)>>
             \o DisplayKey(Tail(key), FALSE)

\* the category of a field name: the first keyword of mapping its lower-cased name contains
CategoryOf(key) ==
    LET lowerKey == toLowerCase(key)
        hits == {i \in 1..Len(mapping) : includes(lowerKey, mapping[i].kw)}
    IN  IF hits = {} THEN "Other Info"
        ELSE mapping[CHOOSE i \in hits : \A j \in hits : i <= j].cat

categories ==
    {"Owner Details", "Building Details", "Floor Details", "Mutation Details",
     "Neighbouring Properties", "Life Cycle Details", "Other Info"}

\* the result: a function from the categories that received a field to their
\* (label, value) entries
categorizeDetails(raw) ==
    LET ks == Keys(raw)
        kept == {i \in 1..Len(ks) :
                    /\ toLowerCase(KeyChars(ks[i])) \notin coreKeys
                    /\ raw[ks[i]] # Null
                    /\ raw[ks[i]] # Str(<< >>)}
        cat(i) == CategoryOf(KeyChars(ks[i]))
        label(i) == DisplayKey(KeyChars(ks[i]), TRUE)
        \* categories[cat][displayKey] = val: the last field with a label sets its value
        last == {i \in kept :
                    ~\E j \in kept : j > i /\ label(j) = label(i) /\ cat(j) = cat(i)}
        placed == {[cat |-> cat(i), label |-> label(i), val |-> raw[ks[i]]] : i \in last}
    IN  [c \in {e.cat : e \in placed} |->
            {[label |-> e.label, val |-> e.val] : e \in {e \in placed : e.cat = c}}]


(***************************************************************************)
(* Numbers: monetary amounts are integers (exact in a double below 2^53).  *)
(***************************************************************************)
\* Number(v), for null, undefined, numbers, integer literals and non-numeric text
Number(v) ==
    CASE v.t = "num" -> v
      [] v.t = "null" -> Num(0)
      [] v.t = "str" ->
            LET t == trim(v.s)
                RECURSIVE Value(_)
                Value(ds) == IF ds = << >> THEN 0
                             ELSE 10 * Value(SubSeq(ds, 1, Len(ds) - 1))
                                    + (IndexIn(ds[Len(ds)], DigitSeq) - 1)
            IN  IF t = << >> THEN Num(0)
                ELSE IF IsDigits(Unsigned(t))
                     THEN Num(IF Head(t) = "-" THEN 0 - Value(Unsigned(t))
                                               ELSE Value(Unsigned(t)))
                     ELSE NaN
      [] OTHER -> NaN

\* faulty variant of Contribution: Number(v) || 0, without the clamp
Contribution_NoClamp(v) == Or(Number(v), Num(0)).n

\* Math.max(0, Number(v) || 0)
Contribution(v) ==
    LET x == Or(Number(v), Num(0)) IN IF x.n > 0 THEN x.n ELSE 0

(***************************************************************************)
(* Maps.  masterNameMap and masterGuardianMap are functions from ids to    *)
(* names; registryMap is the sequence of its values in insertion order     *)
(* (a Map iterates in insertion order, set on a present key keeps its      *)
(* place), keyed by assessment_no.                                         *)
(***************************************************************************)
EmptyMap == [k \in {} |-> << >>]

MapHas(m, k) == k \in DOMAIN m
MapSet(m, k, v) == [x \in DOMAIN m \cup {k} |-> IF x = k THEN v ELSE m[x]]

\* m.get(k) || fallback, for a map of strings and a string-valued fallback
GetOr(m, k, fallback) == IF MapHas(m, k) /\ m[k] # << >> THEN m[k] ELSE fallback

RegHas(reg, id) == \E j \in 1..Len(reg) : reg[j].assessment_no = id
RegIndex(reg, id) == CHOOSE j \in 1..Len(reg) : reg[j].assessment_no = id
RegSet(reg, id, rec) ==
    IF RegHas(reg, id) THEN [reg EXCEPT ![RegIndex(reg, id)] = rec]
    ELSE Append(reg, rec)

unassigned == <<"u", "n", "a", "s", "s", "i", "g", "n", "e", "d">>
NoDetails == [present |-> FALSE, entries |-> [c \in {} |-> {}]]

(***************************************************************************)
(* processMasterData, one row at a time.  impl names the revision:         *)
(* "part_001" or "transformers".                                           *)
(***************************************************************************)
\* pass 1, owners.forEach
OwnerName(nm, o) ==
    LET id == resolveId(o)
        name == resolveName(o)
    IN  IF Truthy(id) /\ Truthy(name) THEN MapSet(nm, id.s, name.s) ELSE nm

OwnerGuardian(impl, gm, o) ==
    LET id == resolveId(o)
        guardian == resolveGuardianName(o)
    IN  IF impl = "part_001" /\ Truthy(id) /\ Truthy(guardian)
        THEN MapSet(gm, id.s, guardian.s) ELSE gm

\* faulty variant of AssessmentName: the owner_name field is taken as it comes
AssessmentName_AsItComes(nm, a) ==
    LET id == resolveId(a)
        name == Get(a, "owner_name")
    IN  IF /\ Truthy(id)
           /\ Truthy(name)
           /\ (~MapHas(nm, id.s) \/ Len(nm[id.s]) < Len(String(name)))
        THEN MapSet(nm, id.s, String(name)) ELSE nm

\* faulty variant of AssessmentName: a name of the same length replaces too
AssessmentName_LongerOrEqual(nm, a) ==
    LET id == resolveId(a)
        name == resolveName(a)
    IN  IF /\ Truthy(id)
           /\ Truthy(name)
           /\ (~MapHas(nm, id.s) \/ Len(nm[id.s]) <= Len(name.s))
        THEN MapSet(nm, id.s, name.s) ELSE nm

\* pass 1, assessments.forEach
AssessmentName(nm, a) ==
    LET id == resolveId(a)
        name == resolveName(a)
    IN  IF /\ Truthy(id)
           /\ Truthy(name)
           /\ (~MapHas(nm, id.s) \/ Len(nm[id.s]) < Len(name.s))
        THEN MapSet(nm, id.s, name.s) ELSE nm

\* faulty variant of AssessmentGuardian: a longer guardian replaces, as a longer name does
AssessmentGuardian_LongerWins(impl, gm, a) ==
    LET id == resolveId(a)
        guardian == resolveGuardianName(a)
    IN  IF /\ impl = "part_001"
           /\ Truthy(id)
           /\ Truthy(guardian)
           /\ (~MapHas(gm, id.s) \/ Len(gm[id.s]) < Len(guardian.s))
        THEN MapSet(gm, id.s, guardian.s) ELSE gm

AssessmentGuardian(impl, gm, a) ==
    LET id == resolveId(a)
        guardian == resolveGuardianName(a)
    IN  IF impl = "part_001" /\ Truthy(id) /\ Truthy(guardian) /\ ~MapHas(gm, id.s)
        THEN MapSet(gm, id.s, guardian.s) ELSE gm

\* pass 1, [...demands, ...collections].forEach (revision "transformers" only)
FallbackName(nm, r) ==
    LET id == resolveId(r)
        name == resolveName(r)
    IN  IF Truthy(id) /\ Truthy(name) /\ ~MapHas(nm, id.s)
        THEN MapSet(nm, id.s, name.s) ELSE nm

\* pass 2, step 1: assessments.forEach
SeedRecord(impl, nm, gm, a) ==
    LET id == resolveId(a).s
    IN  [assessment_no |-> id,
         owner_name |-> GetOr(nm, id, <<"O", "w", "n", "e", "r", " ", "[", "I", "D", ":">> \o id \o <<"]">>),
         guardian_name |-> IF impl = "part_001" THEN Str(GetOr(gm, id, << >>))
                           ELSE Undefined,
         zone_id |-> IF Truthy(Get(a, "cluster_id"))
                     THEN trim(String(Get(a, "cluster_id"))) ELSE unassigned,
         demand |-> 0,
         collected |-> 0,
         pending |-> 0,
         details |-> IF impl = "part_001"
                     THEN [present |-> TRUE, entries |-> categorizeDetails(a)]
                     ELSE NoDetails]

Seed(impl, reg, nm, gm, a) ==
    IF ~Truthy(resolveId(a)) THEN reg
    ELSE RegSet(reg, resolveId(a).s, SeedRecord(impl, nm, gm, a))

\* the record an orphan row creates: masterNameMap.get(id) || resolveName(row) || placeholder
OrphanRecord(impl, nm, gm, row, prefix) ==
    LET id == resolveId(row).s
        scanned == resolveName(row)
        guardian == resolveGuardianName(row)
    IN  [assessment_no |-> id,
         owner_name |-> GetOr(nm, id, IF Truthy(scanned) THEN scanned.s
                                      ELSE prefix \o id \o <<"]">>),
         guardian_name |-> IF impl = "part_001"
                           THEN Str(GetOr(gm, id, IF Truthy(guardian) THEN guardian.s
                                                  ELSE << >>))
                           ELSE Undefined,
         zone_id |-> unassigned,
         demand |-> 0,
         collected |-> 0,
         pending |-> 0,
         details |-> NoDetails]

\* faulty variant of FoldDemand: the record of the row loses its zone
FoldDemand_Unzones(impl, reg, nm, gm, d) ==
    IF ~Truthy(resolveId(d)) THEN reg
    ELSE LET id == resolveId(d).s
             record == IF RegHas(reg, id) THEN reg[RegIndex(reg, id)]
                       ELSE OrphanRecord(impl, nm, gm, d, <<"E", "x", "t", "e", "r", "n", "a", "l", " ", "[", "I", "D", ":">>)
         IN  RegSet(reg, id,
                    [record EXCEPT !.demand = @ + Contribution(Get(d, "total_demand")),
                                   !.zone_id = unassigned])

\* faulty variant of FoldDemand: the amount is assigned, not added
FoldDemand_Overwrite(impl, reg, nm, gm, d) ==
    IF ~Truthy(resolveId(d)) THEN reg
    ELSE LET id == resolveId(d).s
             record == IF RegHas(reg, id) THEN reg[RegIndex(reg, id)]
                       ELSE OrphanRecord(impl, nm, gm, d, <<"E", "x", "t", "e", "r", "n", "a", "l", " ", "[", "I", "D", ":">>)
         IN  RegSet(reg, id,
                    [record EXCEPT !.demand = Contribution(Get(d, "total_demand"))])

\* pass 2, step 2: demands.forEach
FoldDemand(impl, reg, nm, gm, d) ==
    IF ~Truthy(resolveId(d)) THEN reg
    ELSE LET id == resolveId(d).s
             record == IF RegHas(reg, id) THEN reg[RegIndex(reg, id)]
                       ELSE OrphanRecord(impl, nm, gm, d, <<"E", "x", "t", "e", "r", "n", "a", "l", " ", "[", "I", "D", ":">>)
         IN  RegSet(reg, id,
                    [record EXCEPT !.demand = @ + Contribution(Get(d, "total_demand"))])

\* faulty variant of FoldCollection: the orphan gets the demand fold's placeholder
FoldCollection_ExternalPlaceholder(impl, reg, nm, gm, c) ==
    IF ~Truthy(resolveId(c)) THEN reg
    ELSE LET id == resolveId(c).s
             record == IF RegHas(reg, id) THEN reg[RegIndex(reg, id)]
                       ELSE OrphanRecord(impl, nm, gm, c, <<"E", "x", "t", "e", "r", "n", "a", "l", " ", "[", "I", "D", ":">>)
         IN  RegSet(reg, id,
                    [record EXCEPT !.collected = @ + Contribution(Get(c, "total_tax"))])

\* faulty variant of FoldCollection: a row without a record is skipped
FoldCollection_NoOrphan(impl, reg, nm, gm, c) ==
    IF ~Truthy(resolveId(c)) \/ ~RegHas(reg, resolveId(c).s) THEN reg
    ELSE LET id == resolveId(c).s
             record == reg[RegIndex(reg, id)]
         IN  RegSet(reg, id,
                    [record EXCEPT !.collected = @ + Contribution(Get(c, "total_tax"))])

\* pass 2, step 3: collections.forEach
FoldCollection(impl, reg, nm, gm, c) ==
    IF ~Truthy(resolveId(c)) THEN reg
    ELSE LET id == resolveId(c).s
             record == IF RegHas(reg, id) THEN reg[RegIndex(reg, id)]
                       ELSE OrphanRecord(impl, nm, gm, c, <<"P", "a", "y", "e", "r", " ", "[", "I", "D", ":">>)
         IN  RegSet(reg, id,
                    [record EXCEPT !.collected = @ + Contribution(Get(c, "total_tax"))])


(***************************************************************************)
(* a.localeCompare(b): the default collation compares the letters without  *)
(* their case first (white space, then punctuation, digits, letters) and   *)
(* only then, between strings equal so far, lower case before upper case.  *)
(***************************************************************************)
CollationOrder == <<" ", "_", "-", ",", ";", ":", "!", "?", ".", "'", "(", ")", "[", "]", "@", "*", "/", "&", "#", "%", "+", "0", "1", "2", "3", "4", "5", "6", "7", "8", "9", "a", "b", "c", "d", "e", "f", "g", "h", "i", "j", "k", "l", "m", "n", "o", "p", "q", "r", "s", "t", "u", "v", "w", "x", "y", "z">>

Primary(c) == IndexIn(ToLowerChar(c), CollationOrder)
Tertiary(c) == IF ToLowerChar(c) = c THEN 0 ELSE 1

\* -1, 0 or 1: the order of two number sequences, a proper prefix first
RECURSIVE LexCompare(_, _)
LexCompare(x, y) ==
    IF x = << >> /\ y = << >> THEN 0
    ELSE IF x = << >> THEN 0 - 1
    ELSE IF y = << >> THEN 1
    ELSE IF Head(x) < Head(y) THEN 0 - 1
    ELSE IF Head(x) > Head(y) THEN 1
    ELSE LexCompare(Tail(x), Tail(y))

localeCompare(a, b) ==
    LET p == LexCompare([i \in 1..Len(a) |-> Primary(a[i])],
                        [i \in 1..Len(b) |-> Primary(b[i])])
    IN  IF p # 0 THEN p
        ELSE LexCompare([i \in 1..Len(a) |-> Tertiary(a[i])],
                        [i \in 1..Len(b) |-> Tertiary(b[i])])

\* Array.prototype.sort is stable: r goes before the first record that compares greater
InsertByName(sorted, r) ==
    LET greater == {j \in 1..Len(sorted) :
                       localeCompare(sorted[j].owner_name, r.owner_name) > 0}
        at == IF greater = {} THEN Len(sorted) + 1
              ELSE CHOOSE j \in greater : \A k \in greater : j <= k
    IN  SubSeq(sorted, 1, at - 1) \o <<r>> \o SubSeq(sorted, at, Len(sorted))

RECURSIVE SortByName(_)
SortByName(recs) ==
    IF recs = << >> THEN << >>
    ELSE InsertByName(SortByName(SubSeq(recs, 1, Len(recs) - 1)), recs[Len(recs)])

(***************************************************************************)
(* Steps 4 to 6 of processMasterData                                       *)
(***************************************************************************)
\* faulty variant of WithPending: the stored pending is returned as it is
WithPending_Stale(r) == r

\* { ...r, pending: r.demand - r.collected }
WithPending(r) == [r EXCEPT !.pending = r.demand - r.collected]

\* faulty variant of Enriched: the records are left in the order of registryMap
Enriched_Unsorted(reg) == [j \in 1..Len(reg) |-> WithPending(reg[j])]

Enriched(reg) == SortByName([j \in 1..Len(reg) |-> WithPending(reg[j])])

RECURSIVE SumDemand(_)
SumDemand(recs) ==
    IF recs = << >> THEN 0 ELSE recs[1].demand + SumDemand(Tail(recs))

RECURSIVE SumCollected(_)
SumCollected(recs) ==
    IF recs = << >> THEN 0 ELSE recs[1].collected + SumCollected(Tail(recs))

\* faulty variant of BaseZones: the master list as it is
BaseZones_NoSynthetic(recs, zs) == zs

BaseZones(recs, zs) ==
    IF /\ \E j \in 1..Len(recs) : recs[j].zone_id = unassigned
       /\ ~\E j \in 1..Len(zs) : String(zs[j].id) = unassigned
    THEN Append(zs, [id |-> Str(unassigned), name |-> Str(<<"E", "x", "t", "e", "r", "n", "a", "l", " ", "/", " ", "U", "n", "l", "i", "n", "k", "e", "d">>)])
    ELSE zs

ZoneMetric(recs, z) ==
    LET zId == trim(String(z.id))
        records == SelectSeq(recs, LAMBDA r : r.zone_id = zId)
        demand == SumDemand(records)
        collected == SumCollected(records)
    IN  [id |-> zId,
         name |-> Or(z.name, Str(<<"Z", "o", "n", "e">>)),
         recordCount |-> Len(records),
         demand |-> demand,
         collected |-> collected,
         pending |-> demand - collected]

ZoneMetrics(recs, zs) ==
    LET baseZones == BaseZones(recs, zs)
    IN  [j \in 1..Len(baseZones) |-> ZoneMetric(recs, baseZones[j])]

\* faulty variant of LiveMetrics: a negative pendingAmount is reported as 0
LiveMetrics_ClampedPending(recs) ==
    LET totalDemand == SumDemand(recs)
        totalCollected == SumCollected(recs)
    IN  [totalAssessments |-> Len(recs),
         totalDemand |-> totalDemand,
         netCollections |-> totalCollected,
         pendingAmount |-> IF totalDemand > totalCollected
                           THEN totalDemand - totalCollected ELSE 0,
         efficiency |-> IF totalDemand > 0
                        THEN [num |-> totalCollected * 100, den |-> totalDemand]
                        ELSE [num |-> 0, den |-> 1]]

\* faulty variant of LiveMetrics: efficiency is capped at 100
LiveMetrics_CappedEfficiency(recs) ==
    LET totalDemand == SumDemand(recs)
        totalCollected == SumCollected(recs)
    IN  [totalAssessments |-> Len(recs),
         totalDemand |-> totalDemand,
         netCollections |-> totalCollected,
         pendingAmount |-> totalDemand - totalCollected,
         efficiency |-> IF totalDemand > 0
                        THEN IF totalCollected > totalDemand
                             THEN [num |-> 100, den |-> 1]
                             ELSE [num |-> totalCollected * 100, den |-> totalDemand]
                        ELSE [num |-> 0, den |-> 1]]

\* efficiency is the exact quotient num / den (a percentage)
LiveMetrics(recs) ==
    LET totalDemand == SumDemand(recs)
        totalCollected == SumCollected(recs)
    IN  [totalAssessments |-> Len(recs),
         totalDemand |-> totalDemand,
         netCollections |-> totalCollected,
         pendingAmount |-> totalDemand - totalCollected,
         efficiency |-> IF totalDemand > 0
                        THEN [num |-> totalCollected * 100, den |-> totalDemand]
                        ELSE [num |-> 0, den |-> 1]]

NoMetrics ==
    [totalAssessments |-> 0, totalDemand |-> 0, netCollections |-> 0,
     pendingAmount |-> 0, efficiency |-> [num |-> 0, den |-> 1]]


(***************************************************************************)
(* Inputs.  Every table is a sequence of rows drawn from a small set that  *)
(* spells one property as "a1" and "A1 ", has rows without a resolvable    *)
(* identifier, noise and placeholder names, names of length 2 and 4,       *)
(* negative, missing and non-numeric amounts, and cluster ids inside and   *)
(* outside the master zone list.  A call holds at most MaxRows rows over   *)
(* its five arguments.                                                     *)
(***************************************************************************)
MaxRows == 3

Blank == Str(<<" ", " ">>)

OwnerRow(id, no, name, guardian) ==
    [id |-> id, assessment_no |-> no, owner_name |-> name, guardian_name |-> guardian]

OwnerRows ==
    { OwnerRow(Num(7), Str(<<"a", "1">>), Str(<<"A", "l">>), Str(<<"R", "a", "j">>)),
      OwnerRow(Num(8), Str(<<"A", "1", " ">>), Str(<<"A", "l", "e", "x">>), Null),
      OwnerRow(Null, Blank, Str(<<"B", "o">>), Str(<<"R", "a", "j">>)),
      OwnerRow(Str(<<"b", "2">>), Null, Str(<<" ", "B", "o", " ">>), Str(<<"-">>)) }

AssessmentRow(no, name, guardian, cluster) ==
    [assessment_no |-> no, owner_name |-> name, guardian_name |-> guardian,
     cluster_id |-> cluster]

AssessmentRows ==
    { AssessmentRow(Str(<<"a", "1">>), Str(<<"B", "o">>), Str(<<"J", "o">>), Str(<<"Z", "1">>)),
      AssessmentRow(Str(<<"A", "1", " ">>), Str(<<"A", "l", "e", "x">>), Str(<<"S", "a", "m", "i", "r">>), Str(<<" ", "Z", "2", " ">>)),
      AssessmentRow(Str(<<"a", " ", "1">>), Null, Null, Null),
      AssessmentRow(Str(<<"B", "2">>), Str(<<"N", "/", "A">>), Null, Str(<<"Z", "9">>)),
      AssessmentRow(Str(<<"B", "2">>), Str(<<"O", "w", "n", "e", "r", " ", "[", "I", "D", ":", "B", "2", "]">>), Str(<<"R", "a", "j">>), Num(0)),
      AssessmentRow(Null, Str(<<"A", "l">>), Str(<<"R", "a", "j">>), Str(<<"Z", "1">>)) }

DemandRow(no, name, amount) ==
    [assessment_no |-> no, owner_name |-> name, total_demand |-> amount]

DemandRows ==
    { DemandRow(Str(<<"a", "1">>), Null, Num(100)),
      DemandRow(Str(<<"A", "1", " ">>), Str(<<"D", "a", "n">>), Str(<<"3", "0">>)),
      DemandRow(Str(<<"B", "2">>), Str(<<"E", "v", "e">>), Num(0 - 100)),
      DemandRow(Str(<<"b", "2">>), Str(<<"u", "n", "k", "n", "o", "w", "n">>), Str(<<"a", "b", "c">>)),
      DemandRow(Blank, Str(<<"D", "a", "n">>), Num(50)) }

CollectionRow(id, no, name, amount) ==
    [id |-> id, assessment_no |-> no, owner_name |-> name, total_tax |-> amount]

CollectionRows ==
    { CollectionRow(Num(1), Str(<<"A", "1", " ">>), Null, Num(40)),
      CollectionRow(Num(2), Str(<<"B", "2">>), Str(<<"F", "i", "n", "n">>), Num(250)),
      CollectionRow(Num(3), Str(<<"c", "3">>), Str(<<"0">>), Null),
      CollectionRow(Num(4), Str(<<"a", "1">>), Str(<<"P", "a", "y", "e", "r">>), Num(0 - 5)),
      CollectionRow(Null, Null, Str(<<"G", "u", "s">>), Num(30)) }

ZoneRows ==
    { [id |-> Str(<<"Z", "1">>), name |-> Str(<<"N", "o", "r", "t", "h">>)],
      [id |-> Str(<<"Z", "2", " ">>), name |-> Null],
      [id |-> Str(unassigned), name |-> Str(<<"P", "o", "o", "l">>)] }

\* how many rows each of owners, assessments, demands, collections, zones holds
Lengths ==
    {L \in [1..5 -> 0..MaxRows] : L[1] + L[2] + L[3] + L[4] + L[5] <= MaxRows}

(***************************************************************************)
(* The state of one call of processMasterData                              *)
(***************************************************************************)
VARIABLES
    impl,               \* the revision that runs: "part_001" or "transformers"
    owners, assessments, demands, collections, zones,   \* the arguments
    pc,                 \* the loop the call is in
    i,                  \* the index of the next row of that loop
    masterNameMap, masterGuardianMap, registryMap,
    enriched, zoneMetrics, liveMetrics,                 \* the returned values
    other,              \* the locals of a second call that is not running now
    fn, arg, ret,       \* a call of one helper: its name, argument and result
    fetch,              \* one call of the paginated fetch
    app,                \* the App component: its state and the session it waits for
    dash,               \* the Dashboard component: its state and its running operations
    stats               \* the Dashboard of part_000: its state and its running refreshes

vars ==
    <<impl, owners, assessments, demands, collections, zones, pc, i,
      masterNameMap, masterGuardianMap, registryMap, enriched, zoneMetrics,
      liveMetrics, other, fn, arg, ret, fetch, app, dash, stats>>

\* the components around the engine: fetching, authentication and the screens
collaborators == <<fetch, app, dash, stats>>

\* what a step of processMasterData cannot touch: the locals of another call, and
\* the helper call that the helper specification is about
outside == <<other, fn, arg, ret, collaborators>>

\* no second call
NoCall == [pc |-> "none"]

\* a collaborator that does not run
Unused == [pc |-> "none"]

NoCollaborators ==
    /\ fetch = Unused
    /\ app = Unused
    /\ dash = Unused
    /\ stats = Unused

inputs == <<impl, owners, assessments, demands, collections, zones>>

\* the rows a loop runs over
Rows(p) ==
    CASE p = "owners" -> owners
      [] p = "names" -> assessments
      [] p = "fallback" -> demands \o collections
      [] p = "seed" -> assessments
      [] p = "demands" -> demands
      [] p = "collections" -> collections
      [] OTHER -> << >>

Loops ==
    IF impl = "transformers"
    THEN <<"owners", "names", "fallback", "seed", "demands", "collections">>
    ELSE <<"owners", "names", "seed", "demands", "collections">>

\* the first loop after position k of Loops that has a row to run on; "final" if none
LoopAfter(k) ==
    LET later == {j \in (k + 1)..Len(Loops) : Rows(Loops[j]) # << >>}
    IN  IF later = {} THEN "final"
        ELSE Loops[CHOOSE j \in later : \A m \in later : j <= m]

\* after row i of loop pc: the next row, or the next loop
Advance ==
    IF i < Len(Rows(pc))
    THEN pc' = pc /\ i' = i + 1
    ELSE pc' = LoopAfter(CHOOSE k \in 1..Len(Loops) : Loops[k] = pc) /\ i' = 1

Init ==
    /\ impl \in {"part_001", "transformers"}
    /\ \E L \in Lengths :
          /\ owners \in [1..L[1] -> OwnerRows]
          /\ assessments \in [1..L[2] -> AssessmentRows]
          /\ demands \in [1..L[3] -> DemandRows]
          /\ collections \in [1..L[4] -> CollectionRows]
          /\ zones \in [1..L[5] -> ZoneRows]
    /\ pc = LoopAfter(0)
    /\ i = 1
    /\ masterNameMap = EmptyMap
    /\ masterGuardianMap = EmptyMap
    /\ registryMap = << >>
    /\ enriched = << >>
    /\ zoneMetrics = << >>
    /\ liveMetrics = NoMetrics
    /\ other = NoCall
    /\ fn = "processMasterData"
    /\ arg = Null
    /\ ret = Null
    /\ NoCollaborators

PassOwners ==
    /\ pc = "owners"
    /\ masterNameMap' = OwnerName(masterNameMap, owners[i])
    /\ masterGuardianMap' = OwnerGuardian(impl, masterGuardianMap, owners[i])
    /\ Advance
    /\ UNCHANGED <<inputs, outside, registryMap, enriched, zoneMetrics, liveMetrics>>

PassAssessments ==
    /\ pc = "names"
    /\ masterNameMap' = AssessmentName(masterNameMap, assessments[i])
    /\ masterGuardianMap' = AssessmentGuardian(impl, masterGuardianMap, assessments[i])
    /\ Advance
    /\ UNCHANGED <<inputs, outside, registryMap, enriched, zoneMetrics, liveMetrics>>

PassFallback ==
    /\ pc = "fallback"
    /\ masterNameMap' = FallbackName(masterNameMap, (demands \o collections)[i])
    /\ Advance
    /\ UNCHANGED <<inputs, outside, masterGuardianMap, registryMap, enriched, zoneMetrics,
                   liveMetrics>>

SeedAssessment ==
    /\ pc = "seed"
    /\ registryMap' = Seed(impl, registryMap, masterNameMap, masterGuardianMap,
                           assessments[i])
    /\ Advance
    /\ UNCHANGED <<inputs, outside, masterNameMap, masterGuardianMap, enriched, zoneMetrics,
                   liveMetrics>>

MergeDemand ==
    /\ pc = "demands"
    /\ registryMap' = FoldDemand(impl, registryMap, masterNameMap, masterGuardianMap,
                                 demands[i])
    /\ Advance
    /\ UNCHANGED <<inputs, outside, masterNameMap, masterGuardianMap, enriched, zoneMetrics,
                   liveMetrics>>

MergeCollection ==
    /\ pc = "collections"
    /\ registryMap' = FoldCollection(impl, registryMap, masterNameMap,
                                     masterGuardianMap, collections[i])
    /\ Advance
    /\ UNCHANGED <<inputs, outside, masterNameMap, masterGuardianMap, enriched, zoneMetrics,
                   liveMetrics>>

\* faulty variant of Finalize: baseZones is the caller's array, not a copy of it
Finalize_PushToZones ==
    /\ pc = "final"
    /\ LET sorted == Enriched(registryMap)
       IN  /\ enriched' = sorted
           /\ zoneMetrics' = ZoneMetrics(sorted, zones)
           /\ liveMetrics' = LiveMetrics(sorted)
           /\ zones' = BaseZones(sorted, zones)
    /\ pc' = "done"
    /\ UNCHANGED <<impl, owners, assessments, demands, collections, outside, i,
                   masterNameMap, masterGuardianMap, registryMap>>

\* steps 4 to 6 and the return
Finalize ==
    /\ pc = "final"
    /\ LET sorted == Enriched(registryMap)
       IN  /\ enriched' = sorted
           /\ zoneMetrics' = ZoneMetrics(sorted, zones)
           /\ liveMetrics' = LiveMetrics(sorted)
    /\ pc' = "done"
    /\ UNCHANGED <<inputs, outside, i, masterNameMap, masterGuardianMap, registryMap>>

Next ==
    \/ PassOwners
    \/ PassAssessments
    \/ PassFallback
    \/ SeedAssessment
    \/ MergeDemand
    \/ MergeCollection
    \/ Finalize

Spec == Init /\ [][Next]_vars


(***************************************************************************)
(* Calls of the helpers.  A call takes one argument, drawn from all the    *)
(* texts of at most MaxLen characters over a small alphabet and from some  *)
(* other values, and returns; normalizeId is then applied to its own       *)
(* result.                                                                 *)
(***************************************************************************)
MaxLen == 3

\* the texts of at most n characters over an alphabet
Texts(chars, n) == UNION {[1..k -> chars] : k \in 0..n}

\* the arguments of normalizeId: null, undefined, numbers and texts with letters of
\* both cases, spaces and tabs
RawIds ==
    {Null, Undefined, Num(0), Num(7), Num(0 - 12)}
        \cup {Str(t) : t \in Texts({"a", "A", "b", " ", "\t"}, MaxLen)}

\* names the short texts do not reach: noise words in several cases, with white space
\* around them and as parts of longer names, placeholders, number literals of 9 and 10
\* characters and in other notations, and plain names
LongNames ==
    {
        <<"N", "/", "A">>, <<" ", "n", "/", "a", " ">>,
        <<"u", "n", "k", "n", "o", "w", "n">>, <<"U", "N", "K", "N", "O", "W", "N">>,
        <<"U", "n", "k", "n", "o", "w", "n", "	">>,
        <<"u", "n", "k", "n", "o", "w", "n", "s">>,
        <<"n", "u", "l", "l", " ", "v", "a", "l", "u", "e">>,
        <<"N", "u", "l", "l", " ", "V", "a", "l", "u", "e">>,
        <<"O", "w", "n", "e", "r">>, <<"o", "w", "n", "e", "r">>,
        <<"P", "a", "y", "e", "r">>, <<"p", "a", "y", "e", "r", "s">>,
        <<"O", "w", "n", "e", "r", " ", "[", "I", "D", ":", "A", "1", "]">>,
        <<"[", "I", "D", ":">>, <<"x", "[", "I", "D", ":", "9">>,
        <<"[", "i", "d", ":", "a", "1", "]">>, <<"I", "D", ":", "A", "1">>,
        <<"1", "2", "3", "4", "5", "6", "7", "8", "9">>,
        <<"1", "2", "3", "4", "5", "6", "7", "8", "9", "0">>,
        <<"-", "1", "2", "3", "4", "5", "6", "7", "8">>, <<"1", "2", ".", "5">>,
        <<"1", "e", "5">>, <<"0", "x", "1", "F">>,
        <<"I", "n", "f", "i", "n", "i", "t", "y">>,
        <<"-", "I", "n", "f", "i", "n", "i", "t", "y">>,
        <<"i", "n", "f", "i", "n", "i", "t", "y">>, <<"+", "7">>, <<"7", " ", "7">>,
        <<"A", "l", "e", "x">>, <<"A", "l">>, <<"t", "b", "d">>,
        <<"T", "B", "D", " ", "x">>, <<"N", "a", "N">>, <<"n", "o", "n", "e">>,
        <<"f", "a", "l", "s", "e">>, <<"t", "r", "u", "e">>,
        <<"m", "i", "s", "s", "i", "n", "g">>,
        <<"u", "n", "d", "e", "f", "i", "n", "e", "d">>,
        <<"u", "n", "n", "a", "m", "e", "d">>,
        <<"U", "n", "n", "a", "m", "e", "d", " ", "R", "o", "a", "d">>
    }

\* the arguments of isValidName
RawNames ==
    {Null, Undefined, Num(0), Num(5), Num(12345), Num(1234567890), Num(0 - 1), NaN}
        \cup {Str(t) : t \in Texts({"A", "n", "0", "e", ".", "-", " "}, MaxLen)}
        \cup {Str(t) : t \in LongNames}

\* the arguments of resolveName: every record over five fields, each of them absent,
\* null, a noise word, or a name of its own with white space around it
NameFields == {"Citizen", "owner_name", "name", "payer_name", "guardian_name"}

NameOf ==
    "Citizen" :> Str(<<" ", "C", "y", " ">>) @@ "owner_name" :> Str(<<"A", "l">>)
        @@ "name" :> Str(<<" ", "B", "o">>) @@ "payer_name" :> Str(<<"D", "e", "e", " ">>)
        @@ "guardian_name" :> Str(<<"R", "a", "j">>)

NameObjects ==
    {[k \in {k \in NameFields : ch[k] # "absent"} |->
         CASE ch[k] = "null" -> Null
           [] ch[k] = "noise" -> Str(<<"N", "/", "A">>)
           [] OTHER -> NameOf[k]] :
       ch \in [NameFields -> {"absent", "null", "noise", "name"}]}

\* the arguments of categorizeDetails: every record of at most MaxFields fields out of
\* seven, core fields among them and two that differ in the case of a letter only, each
\* null, empty, 0 or the text of its own name
MaxFields == 3

DetailFields ==
    {"id", "Updated_At", "father_name", "Father_name", "mobile_no", "plot_area",
     "remarks"}

DetailObjects ==
    UNION {{[k \in K |-> CASE ch[k] = "null" -> Null
                            [] ch[k] = "empty" -> Str(<< >>)
                            [] ch[k] = "zero" -> Num(0)
                            [] OTHER -> Str(KeyChars(k))] :
               ch \in [K -> {"null", "empty", "zero", "name"}]} :
             K \in {K \in SUBSET DetailFields : Cardinality(K) <= MaxFields}}

HelperInit ==
    /\ impl \in {"part_001", "transformers"}
    /\ owners = << >>
    /\ assessments = << >>
    /\ demands = << >>
    /\ collections = << >>
    /\ zones = << >>
    /\ i = 1
    /\ masterNameMap = EmptyMap
    /\ masterGuardianMap = EmptyMap
    /\ registryMap = << >>
    /\ enriched = << >>
    /\ zoneMetrics = << >>
    /\ liveMetrics = NoMetrics
    /\ other = NoCall
    /\ pc = "call"
    /\ ret = Null
    /\ NoCollaborators
    /\ \/ fn = "normalizeId" /\ arg \in RawIds
       \/ fn = "isValidName" /\ arg \in RawNames
       \/ fn = "resolveName" /\ arg \in NameObjects
       \/ fn = "categorizeDetails" /\ arg \in DetailObjects

\* everything but the helper call
engine ==
    <<inputs, i, masterNameMap, masterGuardianMap, registryMap, enriched,
      zoneMetrics, liveMetrics, other, collaborators>>

CallNormalizeId ==
    /\ fn = "normalizeId"
    /\ pc = "call"
    /\ ret' = normalizeId(arg)
    /\ pc' = "returned"
    /\ UNCHANGED <<engine, fn, arg>>

\* normalizeId applied to what it returned
NormalizeAgain ==
    /\ fn = "normalizeId"
    /\ pc = "returned"
    /\ arg' = ret
    /\ ret' = normalizeId(ret)
    /\ pc' = "again"
    /\ UNCHANGED <<engine, fn>>

CallIsValidName ==
    /\ fn = "isValidName"
    /\ pc = "call"
    /\ ret' = isValidName(arg)
    /\ pc' = "returned"
    /\ UNCHANGED <<engine, fn, arg>>

CallResolveName ==
    /\ fn = "resolveName"
    /\ pc = "call"
    /\ ret' = resolveName(arg)
    /\ pc' = "returned"
    /\ UNCHANGED <<engine, fn, arg>>

CallCategorizeDetails ==
    /\ fn = "categorizeDetails"
    /\ pc = "call"
    /\ ret' = categorizeDetails(arg)
    /\ pc' = "returned"
    /\ UNCHANGED <<engine, fn, arg>>

HelperNext ==
    \/ CallNormalizeId
    \/ NormalizeAgain
    \/ CallIsValidName
    \/ CallResolveName
    \/ CallCategorizeDetails

HelperSpec == HelperInit /\ [][HelperNext]_vars


(***************************************************************************)
(* Two calls on the same arguments.  The maps and the results are locals   *)
(* of a call; the call that is not running keeps its locals in other, and  *)
(* Switch lets the other call run, at any point between two rows, until it *)
(* has returned.                                                           *)
(***************************************************************************)
\* the locals of the running call
Frame ==
    [pc |-> pc, i |-> i, masterNameMap |-> masterNameMap,
     masterGuardianMap |-> masterGuardianMap, registryMap |-> registryMap,
     enriched |-> enriched, zoneMetrics |-> zoneMetrics, liveMetrics |-> liveMetrics]

TwoCallsInit ==
    /\ impl \in {"part_001", "transformers"}
    /\ \E L \in Lengths :
          /\ owners \in [1..L[1] ->
                {OwnerRow(Num(7), Str(<<"a", "1">>), Str(<<"A", "l">>), Str(<<"R", "a", "j">>))}]
          /\ assessments \in [1..L[2] ->
                {AssessmentRow(Str(<<"a", "1">>), Str(<<"B", "o">>), Null, Str(<<"Z", "1">>)),
                 AssessmentRow(Str(<<"B", "2">>), Str(<<"N", "/", "A">>), Null, Str(<<"Z", "9">>))}]
          /\ demands \in [1..L[3] ->
                {DemandRow(Str(<<"A", "1", " ">>), Str(<<"D", "a", "n">>), Str(<<"3", "0">>)),
                 DemandRow(Str(<<"B", "2">>), Str(<<"E", "v", "e">>), Num(0 - 100))}]
          /\ collections \in [1..L[4] ->
                {CollectionRow(Num(2), Str(<<"B", "2">>), Str(<<"F", "i", "n", "n">>), Num(250)),
                 CollectionRow(Num(3), Str(<<"c", "3">>), Str(<<"0">>), Null)}]
          /\ zones \in [1..L[5] ->
                {[id |-> Str(<<"Z", "1">>), name |-> Str(<<"N", "o", "r", "t", "h">>)]}]
    /\ pc = LoopAfter(0)
    /\ i = 1
    /\ masterNameMap = EmptyMap
    /\ masterGuardianMap = EmptyMap
    /\ registryMap = << >>
    /\ enriched = << >>
    /\ zoneMetrics = << >>
    /\ liveMetrics = NoMetrics
    /\ other = [pc |-> pc, i |-> 1, masterNameMap |-> EmptyMap,
                masterGuardianMap |-> EmptyMap, registryMap |-> << >>,
                enriched |-> << >>, zoneMetrics |-> << >>, liveMetrics |-> NoMetrics]
    /\ fn = "processMasterData"
    /\ arg = Null
    /\ ret = Null
    /\ NoCollaborators

\* faulty variant of Switch: registryMap is one map that the two calls share
Switch_SharedRegistry ==
    /\ other # NoCall
    /\ other.pc # "done"
    /\ other' = Frame
    /\ pc' = other.pc
    /\ i' = other.i
    /\ masterNameMap' = other.masterNameMap
    /\ masterGuardianMap' = other.masterGuardianMap
    /\ enriched' = other.enriched
    /\ zoneMetrics' = other.zoneMetrics
    /\ liveMetrics' = other.liveMetrics
    /\ UNCHANGED <<inputs, registryMap, fn, arg, ret, collaborators>>

\* the running call is left where it is and the other call runs on
Switch ==
    /\ other # NoCall
    /\ other.pc # "done"
    /\ other' = Frame
    /\ pc' = other.pc
    /\ i' = other.i
    /\ masterNameMap' = other.masterNameMap
    /\ masterGuardianMap' = other.masterGuardianMap
    /\ registryMap' = other.registryMap
    /\ enriched' = other.enriched
    /\ zoneMetrics' = other.zoneMetrics
    /\ liveMetrics' = other.liveMetrics
    /\ UNCHANGED <<inputs, fn, arg, ret, collaborators>>

TwoCallsNext ==
    \/ Next
    \/ Switch

TwoCalls == TwoCallsInit /\ [][TwoCallsNext]_vars


(***************************************************************************)
(* The paginated fetch: fetchAll of the data service and fetchAllRows of   *)
(* the Dashboard of part_000 are the same loop; fetchAllRows logs the      *)
(* error it stops at.  The table is known by its number of rows and a row  *)
(* by its position, 0 first.  The server answers a request with an error   *)
(* (data is then null) or with the rows of the requested range that the    *)
(* table has; while the loop runs a row may be added at the end of the     *)
(* table or the last row deleted, once.                                    *)
(***************************************************************************)
pageSize == 1000

\* the tables: up to MaxPages full pages, and one row or all but one row more
MaxPages == 2

TableSizes ==
    {p * pageSize + d : p \in 0..MaxPages, d \in {0, 1, pageSize - 1}}

EngineUnused ==
    /\ impl = "part_001"
    /\ owners = << >>
    /\ assessments = << >>
    /\ demands = << >>
    /\ collections = << >>
    /\ zones = << >>
    /\ pc = "none"
    /\ i = 1
    /\ masterNameMap = EmptyMap
    /\ masterGuardianMap = EmptyMap
    /\ registryMap = << >>
    /\ enriched = << >>
    /\ zoneMetrics = << >>
    /\ liveMetrics = NoMetrics
    /\ other = NoCall
    /\ fn = "none"
    /\ arg = Null
    /\ ret = Null

\* .range(page * pageSize, (page + 1) * pageSize - 1), both ends included;
\* faulty variant: the range ends at the first row of the next page
PageRange_EndsOnNextPage(page) ==
    [from |-> page * pageSize, to |-> (page + 1) * pageSize]

PageRange(page) ==
    [from |-> page * pageSize, to |-> (page + 1) * pageSize - 1]

\* the rows of a range that a table of n rows has: the first one and how many
RowsInRange(r, n) ==
    LET last == IF r.to + 1 < n THEN r.to + 1 ELSE n
    IN  [from |-> r.from, len |-> IF last > r.from THEN last - r.from ELSE 0]

FetchInit ==
    /\ EngineUnused
    /\ app = Unused
    /\ dash = Unused
    /\ stats = Unused
    /\ \E f \in {"fetchAll", "fetchAllRows"}, n \in TableSizes :
          fetch = [fn |-> f, table |-> n, pc |-> "loop", page |-> 0,
                   allData |-> << >>, requests |-> << >>, error |-> FALSE,
                   logged |-> FALSE, changed |-> FALSE]

notFetch == <<inputs, pc, i, masterNameMap, masterGuardianMap, registryMap, enriched,
              zoneMetrics, liveMetrics, other, fn, arg, ret, app, dash, stats>>

\* the top of the loop: the request of the page is sent and awaited
FetchRequest ==
    /\ fetch.pc = "loop"
    /\ fetch' = [fetch EXCEPT !.pc = "await",
                              !.requests = Append(@, PageRange(fetch.page))]
    /\ UNCHANGED notFetch

\* the answer is an error: the loop is left
FetchError ==
    /\ fetch.pc = "await"
    /\ fetch' = [fetch EXCEPT !.pc = "returned", !.error = TRUE,
                              !.logged = (fetch.fn = "fetchAllRows")]
    /\ UNCHANGED notFetch

\* the answer is the rows of the range: none ends the loop, a short page is added and
\* ends it, a full page is added and the next page is asked for
FetchRows ==
    /\ fetch.pc = "await"
    /\ LET data == RowsInRange(fetch.requests[Len(fetch.requests)], fetch.table)
       IN  fetch' =
              IF data.len = 0 THEN [fetch EXCEPT !.pc = "returned"]
              ELSE IF data.len < pageSize
              THEN [fetch EXCEPT !.pc = "returned", !.allData = Append(@, data)]
              ELSE [fetch EXCEPT !.pc = "loop", !.allData = Append(@, data),
                                 !.page = @ + 1]
    /\ UNCHANGED notFetch

\* another client adds a row at the end of the table or deletes the last row
TableChange ==
    /\ fetch.pc \in {"loop", "await"}
    /\ ~fetch.changed
    /\ \E n \in {fetch.table + 1, fetch.table - 1} :
          /\ n >= 0
          /\ fetch' = [fetch EXCEPT !.table = n, !.changed = TRUE]
    /\ UNCHANGED notFetch

FetchNext ==
    \/ FetchRequest
    \/ FetchError
    \/ FetchRows
    \/ TableChange

FetchSpec == FetchInit /\ [][FetchNext]_vars

\* the server answers every request and the loop goes on after every answer
FetchLive ==
    FetchSpec /\ WF_vars(FetchRequest) /\ WF_vars(FetchError \/ FetchRows)

(***************************************************************************)
(* App: status and user are set by the callback of getSession, which runs  *)
(* once, and by the listener of onAuthStateChange, which runs on every     *)
(* authentication event until the component is unmounted.  Either gets the *)
(* session of its moment or null, in any order.  The state setters of one  *)
(* callback take effect together, in one render.                           *)
(***************************************************************************)
\* the authentication events that reach the listener
MaxEvents == 3

Metas ==
    {Undefined,
     [user_id |-> Undefined, name |-> Undefined, full_name |-> Str(<<"A", "s", "h", "a">>),
      phone |-> Undefined, role |-> Str(<<"A", "D", "M", "I", "N">>), clusters |-> Undefined],
     [user_id |-> Num(7), name |-> Str(<<"J", "o">>), full_name |-> Str(<<"A", "s", "h", "a">>),
      phone |-> Str(<<"9", "8">>), role |-> Undefined, clusters |-> Undefined]}

Sessions ==
    {[user |-> [id |-> id, email |-> email, user_metadata |-> meta]] :
        id \in {"u1", "u2"}, email \in {Str(<<"a", "@", "b">>), Undefined}, meta \in Metas}

\* meta?.field
Optional(meta, field) == IF meta = Undefined THEN Undefined ELSE meta[field]

\* faulty variant of mapSessionToUser: a session without metadata gives no user
mapSessionToUser_NeedsMetadata(session) ==
    IF session = Null \/ session.user.user_metadata = Undefined THEN Null
    ELSE LET meta == session.user.user_metadata
         IN  [id |-> session.user.id,
              email |-> Or(session.user.email, Str(<< >>)),
              user_id |-> Optional(meta, "user_id"),
              full_name |-> Or(Optional(meta, "name"), Optional(meta, "full_name")),
              phone |-> Optional(meta, "phone"),
              role |-> Or(Optional(meta, "role"), Str(<<"U", "S", "E", "R">>)),
              clusters |-> Optional(meta, "clusters")]

mapSessionToUser(session) ==
    IF session = Null THEN Null
    ELSE LET meta == session.user.user_metadata
         IN  [id |-> session.user.id,
              email |-> Or(session.user.email, Str(<< >>)),
              user_id |-> Optional(meta, "user_id"),
              full_name |-> Or(Optional(meta, "name"), Optional(meta, "full_name")),
              phone |-> Optional(meta, "phone"),
              role |-> Or(Optional(meta, "role"), Str(<<"U", "S", "E", "R">>)),
              clusters |-> Optional(meta, "clusters")]

\* what App renders
View ==
    IF app.status = "loading" THEN [screen |-> "spinner"]
    ELSE IF app.status = "authenticated" THEN [screen |-> "Dashboard", user |-> app.user]
    ELSE [screen |-> "Login"]

AppInit ==
    /\ EngineUnused
    /\ fetch = Unused
    /\ dash = Unused
    /\ stats = Unused
    /\ app = [status |-> "loading", user |-> Null, getSession |-> "pending",
              mounted |-> TRUE, events |-> 0]

notApp == <<inputs, pc, i, masterNameMap, masterGuardianMap, registryMap, enriched,
            zoneMetrics, liveMetrics, other, fn, arg, ret, fetch, dash, stats>>

\* the callback of getSession().then; it is not cancelled by the unmount, after which
\* the setters do nothing
GetSessionResolved ==
    /\ app.getSession = "pending"
    /\ \E session \in Sessions \union {Null} :
          app' = IF ~app.mounted THEN [app EXCEPT !.getSession = "resolved"]
                 ELSE IF session # Null
                 THEN [app EXCEPT !.getSession = "resolved",
                                  !.user = mapSessionToUser(session),
                                  !.status = "authenticated"]
                 ELSE [app EXCEPT !.getSession = "resolved",
                                  !.status = "unauthenticated"]
    /\ UNCHANGED notApp

\* the listener of onAuthStateChange
AuthStateChange ==
    /\ app.mounted
    /\ app.events < MaxEvents
    /\ \E session \in Sessions \union {Null} :
          app' = IF session # Null
                 THEN [app EXCEPT !.events = @ + 1,
                                  !.user = mapSessionToUser(session),
                                  !.status = "authenticated"]
                 ELSE [app EXCEPT !.events = @ + 1,
                                  !.user = Null,
                                  !.status = "unauthenticated"]
    /\ UNCHANGED notApp

\* the cleanup of the effect: subscription.unsubscribe()
Unmount ==
    /\ app.mounted
    /\ app' = [app EXCEPT !.mounted = FALSE]
    /\ UNCHANGED notApp

AppNext ==
    \/ GetSessionResolved
    \/ AuthStateChange
    \/ Unmount

AppSpec == AppInit /\ [][AppNext]_vars

(***************************************************************************)
(* Dashboard: syncData runs once, from the effect; loadZoneOwners,         *)
(* openOwner and openAssessment run on a tap on a row of the list that the *)
(* active tab shows.  No tap is refused while isSyncing is set, so calls   *)
(* overlap and end in any order.  The lists are known by the keys of their *)
(* rows.  The queries resolve with data or with an error; syncData and     *)
(* openOwner catch what is thrown.                                         *)
(***************************************************************************)
\* the calls that run at the same time
MaxCalls == 2

ZoneIds == {"Z1"}
OwnerNames == {"Asha"}
AssessmentNos == {"A1"}

DashInit ==
    /\ EngineUnused
    /\ fetch = Unused
    /\ app = Unused
    /\ stats = Unused
    /\ dash = [isSyncing |-> FALSE, activeTab |-> "home", metrics |-> "null",
               zones |-> {}, zoneOwners |-> {}, ownerPortfolio |-> {},
               selectedOwner |-> "null", selectedAssessment |-> "null",
               effect |-> "pending", calls |-> << >>]

notDash == <<inputs, pc, i, masterNameMap, masterGuardianMap, registryMap, enriched,
             zoneMetrics, liveMetrics, other, fn, arg, ret, fetch, app, stats>>

\* the calls without call k
Without(calls, k) == SubSeq(calls, 1, k - 1) \o SubSeq(calls, k + 1, Len(calls))

\* an asynchronous function is called: it runs to its first await
Start(d, f, a) ==
    [d EXCEPT !.isSyncing = TRUE, !.calls = Append(@, [fn |-> f, arg |-> a])]

\* useEffect(() => { syncData(); }, [syncData])
CallSyncData ==
    /\ dash.effect = "pending"
    /\ dash' = [Start(dash, "syncData", "none") EXCEPT !.effect = "run"]
    /\ UNCHANGED notDash

\* syncData after its await: the three states are set, or what was thrown is caught
SyncDataReturns ==
    /\ \E k \in 1..Len(dash.calls) :
          /\ dash.calls[k].fn = "syncData"
          /\ \/ \E zs \in SUBSET ZoneIds :
                   dash' = [dash EXCEPT !.metrics = "set", !.zones = zs,
                                        !.isSyncing = FALSE,
                                        !.calls = Without(@, k)]
             \/ dash' = [dash EXCEPT !.isSyncing = FALSE, !.calls = Without(@, k)]
    /\ UNCHANGED notDash

\* the navigation bar, the cards of the home tab and the back buttons
SetActiveTab ==
    /\ \E tab \in {"home", "zones", "collections", "records", "ownerDetail"} :
          /\ \/ tab \in {"home", "zones", "collections"}
             \/ tab = "records" /\ dash.activeTab = "ownerDetail"
                                /\ dash.selectedOwner # "null"
             \/ tab = "ownerDetail" /\ dash.activeTab = "assessmentDetail"
                                    /\ dash.selectedAssessment # "null"
          /\ tab # dash.activeTab
          /\ dash' = [dash EXCEPT !.activeTab = tab]
    /\ UNCHANGED notDash

\* a tap on a zone of the zones tab
CallLoadZoneOwners ==
    /\ dash.activeTab = "zones"
    /\ Len(dash.calls) < MaxCalls
    /\ \E z \in dash.zones : dash' = Start(dash, "loadZoneOwners", z)
    /\ UNCHANGED notDash

LoadZoneOwnersReturns ==
    /\ \E k \in 1..Len(dash.calls) :
          /\ dash.calls[k].fn = "loadZoneOwners"
          /\ \/ \E data \in SUBSET OwnerNames :
                   dash' = [dash EXCEPT !.zoneOwners = data, !.activeTab = "records",
                                        !.isSyncing = FALSE,
                                        !.calls = Without(@, k)]
             \/ dash' = [dash EXCEPT !.isSyncing = FALSE, !.calls = Without(@, k)]
    /\ UNCHANGED notDash

\* a tap on an owner of the records tab
CallOpenOwner ==
    /\ dash.activeTab = "records"
    /\ Len(dash.calls) < MaxCalls
    /\ \E o \in dash.zoneOwners : dash' = Start(dash, "openOwner", o)
    /\ UNCHANGED notDash

OpenOwnerReturns ==
    /\ \E k \in 1..Len(dash.calls) :
          /\ dash.calls[k].fn = "openOwner"
          /\ \/ \E data \in SUBSET AssessmentNos :
                   dash' = [dash EXCEPT !.ownerPortfolio = data,
                                        !.selectedOwner = dash.calls[k].arg,
                                        !.activeTab = "ownerDetail",
                                        !.isSyncing = FALSE,
                                        !.calls = Without(@, k)]
             \/ dash' = [dash EXCEPT !.isSyncing = FALSE, !.calls = Without(@, k)]
    /\ UNCHANGED notDash

\* a tap on an assessment of the owner's portfolio
CallOpenAssessment ==
    /\ dash.activeTab = "ownerDetail"
    /\ dash.selectedOwner # "null"
    /\ Len(dash.calls) < MaxCalls
    /\ \E a \in dash.ownerPortfolio : dash' = Start(dash, "openAssessment", a)
    /\ UNCHANGED notDash

OpenAssessmentReturns ==
    /\ \E k \in 1..Len(dash.calls) :
          /\ dash.calls[k].fn = "openAssessment"
          /\ \/ dash' = [dash EXCEPT !.selectedAssessment = dash.calls[k].arg,
                                     !.activeTab = "assessmentDetail",
                                     !.isSyncing = FALSE,
                                     !.calls = Without(@, k)]
             \/ dash' = [dash EXCEPT !.isSyncing = FALSE, !.calls = Without(@, k)]
    /\ UNCHANGED notDash

DashNext ==
    \/ CallSyncData
    \/ SyncDataReturns
    \/ SetActiveTab
    \/ CallLoadZoneOwners
    \/ LoadZoneOwnersReturns
    \/ CallOpenOwner
    \/ OpenOwnerReturns
    \/ CallOpenAssessment
    \/ OpenAssessmentReturns

DashSpec == DashInit /\ [][DashNext]_vars

(***************************************************************************)
(* The Dashboard of part_000: fetchRealTimeStats runs from the effect and  *)
(* again on every change notification of the realtime channel.  A run      *)
(* awaits three queries, the count of the assessments, the demand rows and *)
(* the collection rows, and then sets the metrics and the collection list. *)
(* Each query reads the tables as they are when it is answered.  A table   *)
(* is known by its number of rows: every demand row is a demand of 1,      *)
(* every collection row a payment of 1 dated after the rows before it.     *)
(* The tables are shorter than a page.                                     *)
(***************************************************************************)
\* the runs of fetchRealTimeStats: the first one and one per notification
MaxRuns == 3

NoTables == [assessments |-> 0, demands |-> 0, collections |-> 0]

StatsInit ==
    /\ EngineUnused
    /\ fetch = Unused
    /\ app = Unused
    /\ dash = Unused
    /\ stats = [db |-> NoTables, notifications |-> 0, effect |-> "pending",
                isSyncing |-> FALSE,
                metrics |-> [totalAssessments |-> 0, totalDemand |-> 0,
                             netCollections |-> 0, pendingAmount |-> 0,
                             efficiency |-> [num |-> 0, den |-> 1]],
                collections |-> << >>,
                runs |-> << >>]

notStats == <<inputs, pc, i, masterNameMap, masterGuardianMap, registryMap, enriched,
              zoneMetrics, liveMetrics, other, fn, arg, ret, fetch, app, dash>>

\* the rows of a table of n rows, in the order the server gives them
TableRows(n) == [j \in 1..n |-> j]

\* rows.sort((a, b) => date(b) - date(a)): the latest payment first
ByDateDescending(rows) == [j \in 1..Len(rows) |-> rows[Len(rows) + 1 - j]]

\* the object that setMetrics is given
MetricsOf(assessmentCount, totalDemand, totalCollected) ==
    [totalAssessments |-> assessmentCount,
     totalDemand |-> totalDemand,
     netCollections |-> totalCollected,
     pendingAmount |-> totalDemand - totalCollected,
     efficiency |-> IF totalDemand > 0
                    THEN [num |-> totalCollected * 100, den |-> totalDemand]
                    ELSE [num |-> 0, den |-> 1]]

\* fetchRealTimeStats is called: isSyncing is set and the count is asked for
StartRun(s) ==
    [s EXCEPT !.isSyncing = TRUE,
              !.runs = Append(@, [pc |-> "count", assessmentCount |-> 0,
                                  totalDemand |-> 0, collectionRows |-> << >>])]

\* the effect: the first run, and the subscription to the channel
StatsEffect ==
    /\ stats.effect = "pending"
    /\ stats' = [StartRun(stats) EXCEPT !.effect = "run"]
    /\ UNCHANGED notStats

\* another client inserts a row; the channel will notify the Dashboard
DbChange ==
    /\ stats.effect = "run"
    /\ Len(stats.runs) + stats.notifications < MaxRuns
    /\ \E t \in {"assessments", "demands", "collections"} :
          stats' = [stats EXCEPT !.db[t] = @ + 1, !.notifications = @ + 1]
    /\ UNCHANGED notStats

\* the callback of 'postgres_changes'
Notified ==
    /\ stats.notifications > 0
    /\ stats' = [StartRun(stats) EXCEPT !.notifications = @ - 1]
    /\ UNCHANGED notStats

\* the count of the assessments is answered
CountAnswered ==
    /\ \E k \in 1..Len(stats.runs) :
          /\ stats.runs[k].pc = "count"
          /\ stats' = [stats EXCEPT !.runs[k].pc = "demands",
                                    !.runs[k].assessmentCount = stats.db.assessments]
    /\ UNCHANGED notStats

\* fetchAllRows('demands') returns
DemandsAnswered ==
    /\ \E k \in 1..Len(stats.runs) :
          /\ stats.runs[k].pc = "demands"
          /\ stats' = [stats EXCEPT !.runs[k].pc = "collections",
                                    !.runs[k].totalDemand = stats.db.demands]
    /\ UNCHANGED notStats

\* fetchAllRows('collections') returns; the run sets the metrics and the list and
\* clears isSyncing
CollectionsAnswered ==
    /\ \E k \in 1..Len(stats.runs) :
          /\ stats.runs[k].pc = "collections"
          /\ LET collectionRows == TableRows(stats.db.collections)
             IN  stats' =
                    [stats EXCEPT
                       !.runs[k].pc = "done",
                       !.runs[k].collectionRows = collectionRows,
                       !.metrics = MetricsOf(stats.runs[k].assessmentCount,
                                             stats.runs[k].totalDemand,
                                             Len(collectionRows)),
                       !.collections = ByDateDescending(collectionRows),
                       !.isSyncing = FALSE]
    /\ UNCHANGED notStats

StatsNext ==
    \/ StatsEffect
    \/ DbChange
    \/ Notified
    \/ CountAnswered
    \/ DemandsAnswered
    \/ CollectionsAnswered

StatsSpec == StatsInit /\ [][StatsNext]_vars

(***************************************************************************)
(* The call as a function of its arguments: the loops above, run to the    *)
(* end.                                                                    *)
(***************************************************************************)
RECURSIVE FoldRows(_, _, _)
FoldRows(Step(_, _), acc, rows) ==
    IF rows = << >> THEN acc
    ELSE FoldRows(Step, Step(acc, Head(rows)), Tail(rows))

processMasterData(im, as, ds, cs, zs, os) ==
    LET nm1 == FoldRows(OwnerName, EmptyMap, os)
        nm2 == FoldRows(AssessmentName, nm1, as)
        nm == IF im = "transformers" THEN FoldRows(FallbackName, nm2, ds \o cs)
              ELSE nm2
        gm1 == FoldRows(LAMBDA m, r : OwnerGuardian(im, m, r), EmptyMap, os)
        gm == FoldRows(LAMBDA m, r : AssessmentGuardian(im, m, r), gm1, as)
        reg1 == FoldRows(LAMBDA reg, r : Seed(im, reg, nm, gm, r), << >>, as)
        reg2 == FoldRows(LAMBDA reg, r : FoldDemand(im, reg, nm, gm, r), reg1, ds)
        reg == FoldRows(LAMBDA reg, r : FoldCollection(im, reg, nm, gm, r), reg2, cs)
        sorted == Enriched(reg)
    IN  [enriched |-> sorted,
         zoneMetrics |-> ZoneMetrics(sorted, zs),
         liveMetrics |-> LiveMetrics(sorted),
         nameMap |-> nm,
         guardianMap |-> gm]

\* what the call in progress returns, once it has returned
Returned ==
    [enriched |-> enriched,
     zoneMetrics |-> zoneMetrics,
     liveMetrics |-> liveMetrics,
     nameMap |-> masterNameMap,
     guardianMap |-> masterGuardianMap]

Done == pc = "done"

(***************************************************************************)
(* Vocabulary of the properties                                            *)
(***************************************************************************)
\* the rows of a table whose identifier resolves to the id k
RowsOf(rows, k) == SelectSeq(rows, LAMBDA r : resolveId(r) = Str(k))

RECURSIVE SumOf(_, _)
SumOf(Amount(_), rows) ==
    IF rows = << >> THEN 0 ELSE Amount(Head(rows)) + SumOf(Amount, Tail(rows))

\* the ledger records with id k
Entries(k) == SelectSeq(enriched, LAMBDA r : r.assessment_no = k)

\* max(0, v) of a field read as a number, 0 when it is no number
Clamped(v) == IF Number(v).t = "num" /\ Number(v).n > 0 THEN Number(v).n ELSE 0

\* a negative, missing or non-numeric amount
BadAmount(v) ==
    \/ v.t \in {"null", "undefined"}
    \/ v.t = "num" /\ v.n < 0
    \/ v.t = "str" /\ ~IsNumericString(v.s)

\* the demand and the collected accumulated so far for the id k, 0 without a record
DemandIn(reg, k) == IF RegHas(reg, k) THEN reg[RegIndex(reg, k)].demand ELSE 0
CollectedIn(reg, k) == IF RegHas(reg, k) THEN reg[RegIndex(reg, k)].collected ELSE 0

\* the ids the rows of a table resolve to
IdsOf(rows) ==
    {resolveId(rows[x]).s : x \in {x \in 1..Len(rows) : Truthy(resolveId(rows[x]))}}

\* the rows of a table with the id k that carry a name resolveName accepts
NamedRows(rows, k) == SelectSeq(RowsOf(rows, k), LAMBDA r : Truthy(resolveName(r)))

\* the name the owner registry gives the id k: that of its last named row
RegistryName(k) == resolveName(NamedRows(owners, k)[Len(NamedRows(owners, k))]).s

\* the names the assessment rows give the id k
AssessmentNames(k) ==
    {resolveName(NamedRows(assessments, k)[x]).s : x \in 1..Len(NamedRows(assessments, k))}

\* a row none of whose identifier fields holds more than white space
Unresolvable(row) ==
    \A f \in {"assessment_no", "assessment_id", "property_id", "id"} :
        \/ Get(row, f).t \in {"null", "undefined"}
        \/ Get(row, f).t = "str" /\ \A x \in 1..Len(Get(row, f).s) : IsWhite(Get(row, f).s[x])

Resolvable(rows) == SelectSeq(rows, LAMBDA r : ~Unresolvable(r))

\* the placeholder name of the id k, by the loop that creates its record
Placeholder(k) ==
    (IF RowsOf(assessments, k) # << >> THEN <<"O", "w", "n", "e", "r", " ", "[", "I", "D", ":">>
     ELSE IF RowsOf(demands, k) # << >> THEN <<"E", "x", "t", "e", "r", "n", "a", "l", " ", "[", "I", "D", ":">>
     ELSE <<"P", "a", "y", "e", "r", " ", "[", "I", "D", ":">>) \o k \o <<"]">>

\* a row with an identifier that no assessment row has
IsOrphan(row) ==
    /\ Truthy(resolveId(row))
    /\ RowsOf(assessments, resolveId(row).s) = << >>


(***************************************************************************)
(* C1.  Every record of the returned ledger has pending = demand -         *)
(* collected, where demand and collected are the totals accumulated for    *)
(* the record in registryMap.                                              *)
(***************************************************************************)
C1_PendingIsDemandMinusCollected ==
    Done =>
        \A j \in 1..Len(enriched) :
            LET r == enriched[j]
            IN  /\ r.pending = r.demand - r.collected
                /\ RegHas(registryMap, r.assessment_no)
                /\ r.demand = registryMap[RegIndex(registryMap, r.assessment_no)].demand
                /\ r.collected =
                       registryMap[RegIndex(registryMap, r.assessment_no)].collected

\* a returned ledger with an overpaid record: demand 30, collected 40, pending -10
C1_Witness ==
    /\ Done
    /\ \E j \in 1..Len(enriched) :
          enriched[j].demand > 0 /\ enriched[j].collected > 0 /\ enriched[j].pending < 0

(***************************************************************************)
(* C2.  The demand, collected and pending of the returned zone summaries   *)
(* add up to liveMetrics.totalDemand, netCollections and pendingAmount,    *)
(* also when a cluster id is missing from the master zone list and when    *)
(* the master list repeats a zone id.                                      *)
(***************************************************************************)
C2_ZoneSumsEqualTotals ==
    Done =>
        /\ SumOf(LAMBDA z : z.demand, zoneMetrics) = liveMetrics.totalDemand
        /\ SumOf(LAMBDA z : z.collected, zoneMetrics) = liveMetrics.netCollections
        /\ SumOf(LAMBDA z : z.pending, zoneMetrics) = liveMetrics.pendingAmount

(***************************************************************************)
(* C3.  Every record of the returned ledger is counted in exactly one      *)
(* returned zone summary, the one whose id is the record's zone_id, and    *)
(* the recordCounts add up to liveMetrics.totalAssessments.                *)
(***************************************************************************)
C3_EveryRecordInOneZone ==
    Done =>
        /\ \A j \in 1..Len(enriched) :
              Cardinality({k \in 1..Len(zoneMetrics) :
                              zoneMetrics[k].id = enriched[j].zone_id}) = 1
        /\ SumOf(LAMBDA z : z.recordCount, zoneMetrics) = liveMetrics.totalAssessments


(***************************************************************************)
(* C4.  The demand of the ledger record with id k is the sum of            *)
(* max(0, total_demand) over the demand rows whose identifier resolves to  *)
(* k, and its collected the sum of max(0, total_tax) over the collection   *)
(* rows whose identifier resolves to k, whatever case and white space the  *)
(* rows spell the identifier with.                                         *)
(***************************************************************************)
C4_TotalsAreSumsOfMatchingRows ==
    Done =>
        \A j \in 1..Len(enriched) :
            LET k == enriched[j].assessment_no
            IN  /\ enriched[j].demand =
                       SumOf(LAMBDA d : Clamped(Get(d, "total_demand")),
                             RowsOf(demands, k))
                /\ enriched[j].collected =
                       SumOf(LAMBDA c : Clamped(Get(c, "total_tax")),
                             RowsOf(collections, k))

\* two demand rows that spell one id differently, both counted in one record
C4_Witness ==
    /\ Done
    /\ \E x, y \in 1..Len(demands) :
          /\ Get(demands[x], "assessment_no") # Get(demands[y], "assessment_no")
          /\ resolveId(demands[x]) = resolveId(demands[y])
          /\ Clamped(Get(demands[x], "total_demand")) > 0
          /\ Clamped(Get(demands[y], "total_demand")) > 0
          /\ \E j \in 1..Len(enriched) :
                /\ Str(enriched[j].assessment_no) = resolveId(demands[x])
                /\ enriched[j].demand = Clamped(Get(demands[x], "total_demand"))
                                          + Clamped(Get(demands[y], "total_demand"))

(***************************************************************************)
(* C5.  Every step keeps demand >= 0 and collected >= 0 in every record    *)
(* and never decreases the demand or the collected of a record; folding a  *)
(* demand row (a collection row) whose amount is negative, missing or not  *)
(* a number leaves every demand (collected) as it was.                     *)
(***************************************************************************)
C5_Step ==
    /\ \A j \in 1..Len(registryMap') :
          registryMap'[j].demand >= 0 /\ registryMap'[j].collected >= 0
    /\ \A j \in 1..Len(enriched') :
          enriched'[j].demand >= 0 /\ enriched'[j].collected >= 0
    /\ \A j \in 1..Len(registryMap) :
          LET k == registryMap[j].assessment_no
          IN  /\ RegHas(registryMap', k)
              /\ DemandIn(registryMap', k) >= registryMap[j].demand
              /\ CollectedIn(registryMap', k) >= registryMap[j].collected
    /\ (pc = "demands" /\ BadAmount(Get(demands[i], "total_demand")))
          => \A j \in 1..Len(registryMap') :
                registryMap'[j].demand =
                    DemandIn(registryMap, registryMap'[j].assessment_no)
    /\ (pc = "collections" /\ BadAmount(Get(collections[i], "total_tax")))
          => \A j \in 1..Len(registryMap') :
                registryMap'[j].collected =
                    CollectedIn(registryMap, registryMap'[j].assessment_no)

\* C5.  Every step of the demand and collection folds adds 0 for a negative,
\* missing or non-numeric amount, and never lowers a record's totals.
C5_NegativeContributesZero == [][C5_Step]_vars

\* a record with a positive collected that a negative collection row was folded into
C5_Witness ==
    /\ Done
    /\ \E j \in 1..Len(enriched) :
          /\ enriched[j].collected > 0
          /\ \E x \in 1..Len(collections) :
                /\ resolveId(collections[x]) = Str(enriched[j].assessment_no)
                /\ Get(collections[x], "total_tax").t = "num"
                /\ Get(collections[x], "total_tax").n < 0

(***************************************************************************)
(* C6.  A demand row or a collection row whose identifier no assessment    *)
(* row has yields exactly one ledger record for that identifier, with      *)
(* zone_id "unassigned", that carries the row's clamped amount: it is      *)
(* part of the record's total, and the whole of it when the row is the     *)
(* only one of its table with that identifier.                             *)
(***************************************************************************)
C6_OrphanEntry ==
    Done =>
        /\ \A x \in 1..Len(demands) :
              IsOrphan(demands[x]) =>
                  LET k == resolveId(demands[x]).s
                      amount == Clamped(Get(demands[x], "total_demand"))
                  IN  /\ Len(Entries(k)) = 1
                      /\ Entries(k)[1].zone_id = unassigned
                      /\ Entries(k)[1].demand >= amount
                      /\ Len(RowsOf(demands, k)) = 1 => Entries(k)[1].demand = amount
        /\ \A x \in 1..Len(collections) :
              IsOrphan(collections[x]) =>
                  LET k == resolveId(collections[x]).s
                      amount == Clamped(Get(collections[x], "total_tax"))
                  IN  /\ Len(Entries(k)) = 1
                      /\ Entries(k)[1].zone_id = unassigned
                      /\ Entries(k)[1].collected >= amount
                      /\ Len(RowsOf(collections, k)) = 1
                            => Entries(k)[1].collected = amount

\* an orphan demand row and an orphan collection row, beside a seeded record
C6_Witness ==
    /\ Done
    /\ \E x \in 1..Len(demands) :
          IsOrphan(demands[x]) /\ Clamped(Get(demands[x], "total_demand")) > 0
    /\ \E x \in 1..Len(collections) :
          IsOrphan(collections[x]) /\ Clamped(Get(collections[x], "total_tax")) > 0
    /\ \E j \in 1..Len(enriched) : enriched[j].zone_id # unassigned


(***************************************************************************)
(* C7.  In pass 1 an assessment row replaces the name its id already has   *)
(* only when the row's resolved name is strictly longer; in the returned   *)
(* name map an id named by the owner registry keeps the registry's name    *)
(* unless an assessment row gives it a strictly longer one.                *)
(***************************************************************************)
C7_Returned ==
    Done =>
        \A k \in IdsOf(owners) :
            NamedRows(owners, k) # << >> =>
                /\ MapHas(masterNameMap, k)
                /\ IF \A n \in AssessmentNames(k) : Len(n) <= Len(RegistryName(k))
                   THEN masterNameMap[k] = RegistryName(k)
                   ELSE /\ masterNameMap[k] \in AssessmentNames(k)
                        /\ Len(masterNameMap[k]) > Len(RegistryName(k))

C7_Step ==
    pc = "names" =>
        LET id == resolveId(assessments[i])
            name == resolveName(assessments[i])
        IN  \A k \in DOMAIN masterNameMap :
                /\ MapHas(masterNameMap', k)
                /\ masterNameMap'[k] =
                      IF id = Str(k) /\ Truthy(name)
                         /\ Len(name.s) > Len(masterNameMap[k])
                      THEN name.s ELSE masterNameMap[k]

\* C7.  In pass 1 an assessment row's name replaces the stored name of its id
\* only when it is strictly longer, and the returned map keeps that name.
C7_LongerAssessmentNameWins == []C7_Returned /\ [][C7_Step]_vars

\* the registry names A1 "Al"; the assessment rows name it "Bo" (kept out) and "Alex"
C7_Witness ==
    /\ Done
    /\ \E k \in IdsOf(owners) :
          /\ NamedRows(owners, k) # << >>
          /\ \E n \in AssessmentNames(k) : Len(n) = Len(RegistryName(k)) /\ n # RegistryName(k)
          /\ \E n \in AssessmentNames(k) : Len(n) > Len(RegistryName(k))
          /\ masterNameMap[k] # RegistryName(k)

(***************************************************************************)
(* C8.  An id that neither the owner registry nor the assessment table     *)
(* names, and that a demand or collection row names, has in the returned   *)
(* name map, and as the owner_name of its ledger record, the name of the   *)
(* first such row, demands before collections.                             *)
(***************************************************************************)
C8_FallbackNames ==
    Done =>
        \A k \in IdsOf(demands \o collections) :
            (/\ NamedRows(owners, k) = << >>
             /\ NamedRows(assessments, k) = << >>
             /\ NamedRows(demands \o collections, k) # << >>)
            => /\ MapHas(masterNameMap, k)
               /\ masterNameMap[k] = resolveName(NamedRows(demands \o collections, k)[1]).s
               /\ \A j \in 1..Len(enriched) :
                     enriched[j].assessment_no = k
                        => enriched[j].owner_name = masterNameMap[k]

(***************************************************************************)
(* C9.  The owner_name of every ledger record is non-empty: a name that    *)
(* isValidName accepts, or the placeholder of the record's own id,         *)
(* "Owner [ID:<id>]" for a record seeded from an assessment row,           *)
(* "External [ID:<id>]" for one created by a demand row, "Payer            *)
(* [ID:<id>]" for one created by a collection row; an orphan id in both    *)
(* tables is created by the demand fold.                                   *)
(***************************************************************************)
C9_OwnerNameNeverEmpty ==
    Done =>
        \A j \in 1..Len(enriched) :
            /\ enriched[j].owner_name # << >>
            /\ \/ isValidName(Str(enriched[j].owner_name))
               \/ enriched[j].owner_name = Placeholder(enriched[j].assessment_no)

\* a ledger with the three placeholders
C9_Witness ==
    /\ Done
    /\ \E j \in 1..Len(enriched) :
          enriched[j].owner_name = <<"O", "w", "n", "e", "r", " ", "[", "I", "D", ":">> \o enriched[j].assessment_no \o <<"]">>
    /\ \E j \in 1..Len(enriched) :
          enriched[j].owner_name = <<"E", "x", "t", "e", "r", "n", "a", "l", " ", "[", "I", "D", ":">> \o enriched[j].assessment_no \o <<"]">>
    /\ \E j \in 1..Len(enriched) :
          enriched[j].owner_name = <<"P", "a", "y", "e", "r", " ", "[", "I", "D", ":">> \o enriched[j].assessment_no \o <<"]">>

(***************************************************************************)
(* C10.  The rows none of whose identifier fields holds more than white    *)
(* space change nothing: the call returns what it returns on the same      *)
(* tables without those rows, and no id in the ledger or the maps is       *)
(* empty.                                                                  *)
(***************************************************************************)
C10_UnresolvableRowsDropped ==
    Done =>
        /\ (\E rows \in {owners, assessments, demands, collections} :
               \E x \in 1..Len(rows) : Unresolvable(rows[x])) =>
              Returned = processMasterData(impl, Resolvable(assessments),
                                           Resolvable(demands), Resolvable(collections),
                                           zones, Resolvable(owners))
        /\ \A j \in 1..Len(enriched) : enriched[j].assessment_no # << >>
        /\ << >> \notin DOMAIN masterNameMap
        /\ << >> \notin DOMAIN masterGuardianMap

\* a call with a named unresolvable row, an unresolvable row with an amount, and a record
C10_Witness ==
    /\ Done
    /\ \E x \in 1..Len(owners \o assessments) :
          /\ Unresolvable((owners \o assessments)[x])
          /\ Truthy(resolveName((owners \o assessments)[x]))
    /\ \E x \in 1..Len(demands) :
          Unresolvable(demands[x]) /\ Clamped(Get(demands[x], "total_demand")) > 0
    /\ Len(enriched) > 0


(***************************************************************************)
(* C11.  normalizeId applied to its own result returns that result, and    *)
(* two values whose texts differ only in the case of their letters and in  *)
(* white space, leading, trailing or internal, normalize to the same       *)
(* string.                                                                 *)
(***************************************************************************)
\* one letter in either case, or the same character
SameLetter(c, d) == ToLowerChar(c) = ToLowerChar(d)

\* two values, neither null nor undefined, whose texts without their white space
\* are the same up to the case of the letters
Alike(x, y) ==
    LET a == SelectSeq(String(x), LAMBDA c : ~IsWhite(c))
        b == SelectSeq(String(y), LAMBDA c : ~IsWhite(c))
    IN  /\ x.t \notin {"null", "undefined"}
        /\ y.t \notin {"null", "undefined"}
        /\ Len(a) = Len(b)
        /\ \A k \in 1..Len(a) : SameLetter(a[k], b[k])

C11_NormalizeIdIdempotent ==
    fn = "normalizeId" =>
        /\ pc = "again" => ret = arg
        /\ pc = "returned" =>
              \A y \in RawIds : Alike(arg, y) => normalizeId(y) = ret

\* a text with a lower-case letter and internal white space has been normalized, and
\* another argument differs from it only in case and white space
C11_Witness ==
    /\ fn = "normalizeId"
    /\ pc = "returned"
    /\ arg.t = "str"
    /\ \E k \in 2..(Len(arg.s) - 1) : IsWhite(arg.s[k])
    /\ \E k \in 1..Len(arg.s) : arg.s[k] \in DOMAIN UpperOf
    /\ \E y \in RawIds : y # arg /\ Alike(arg, y) /\ Len(String(y)) < Len(arg.s)


(***************************************************************************)
(* C12.  Two calls on the same arguments, run one after the other or with  *)
(* their loops interleaved, return the same ledger in the same order, the  *)
(* same zone summaries, the same global metrics and the same name and      *)
(* guardian maps.                                                          *)
(***************************************************************************)
C12_Deterministic ==
    (other # NoCall /\ other.pc = "done" /\ Done) =>
        /\ enriched = other.enriched
        /\ zoneMetrics = other.zoneMetrics
        /\ liveMetrics = other.liveMetrics
        /\ masterNameMap = other.masterNameMap
        /\ masterGuardianMap = other.masterGuardianMap

\* both calls have returned a ledger of two records or more with a demand and a name map
C12_Witness ==
    /\ other # NoCall
    /\ other.pc = "done"
    /\ Done
    /\ Len(enriched) >= 2
    /\ liveMetrics.totalDemand > 0
    /\ DOMAIN masterNameMap # {}


(***************************************************************************)
(* C13.  In the returned global metrics totalAssessments is the length of  *)
(* the ledger, totalDemand the sum of its demands, netCollections the sum  *)
(* of its collecteds, and pendingAmount is totalDemand - netCollections,   *)
(* which is the sum of its pendings.                                       *)
(***************************************************************************)
C13_GlobalMetrics ==
    Done =>
        /\ liveMetrics.totalAssessments = Len(enriched)
        /\ liveMetrics.totalDemand = SumOf(LAMBDA r : r.demand, enriched)
        /\ liveMetrics.netCollections = SumOf(LAMBDA r : r.collected, enriched)
        /\ liveMetrics.pendingAmount =
               liveMetrics.totalDemand - liveMetrics.netCollections
        /\ liveMetrics.pendingAmount = SumOf(LAMBDA r : r.pending, enriched)

\* a ledger with an underpaid and an overpaid record, overpaid in total
C13_Witness ==
    /\ Done
    /\ \E j, k \in 1..Len(enriched) : enriched[j].pending > 0 /\ enriched[k].pending < 0
    /\ liveMetrics.pendingAmount < 0


(***************************************************************************)
(* C14.  The returned efficiency is 0 when totalDemand is 0, and otherwise *)
(* netCollections / totalDemand * 100, above 100 when netCollections >     *)
(* totalDemand > 0.  The efficiency is the quotient num / den, den > 0.    *)
(***************************************************************************)
C14_Efficiency ==
    Done =>
        LET e == liveMetrics.efficiency
        IN  /\ e.den > 0
            /\ liveMetrics.totalDemand = 0 => e.num = 0
            /\ liveMetrics.totalDemand # 0 =>
                   e.num * liveMetrics.totalDemand
                      = liveMetrics.netCollections * 100 * e.den
            /\ (liveMetrics.netCollections > liveMetrics.totalDemand
                   /\ liveMetrics.totalDemand > 0) => e.num > 100 * e.den

\* a call that collected more than it demanded: 40 of 30, or 250 of 100
C14_Witness ==
    /\ Done
    /\ liveMetrics.netCollections > liveMetrics.totalDemand
    /\ liveMetrics.totalDemand > 0
    /\ liveMetrics.efficiency.num > 100 * liveMetrics.efficiency.den


(***************************************************************************)
(* C15.  isValidName returns false for null and undefined and for every    *)
(* value whose text, trimmed, has at most one character, or is a noise     *)
(* word in any case, or has fewer than 10 characters and is a number       *)
(* literal, or contains "[ID:"; it returns true for every other value.     *)
(***************************************************************************)
\* the values the claim says are rejected
Rejected(v) ==
    \/ v.t \in {"null", "undefined"}
    \/ Len(trim(String(v))) <= 1
    \/ \E w \in noise : toLowerCase(trim(String(v))) = w
    \/ Len(trim(String(v))) < 10 /\ IsNumericString(trim(String(v)))
    \/ \E k \in 1..(Len(String(v)) - 3) : SubSeq(String(v), k, k + 3) = <<"[", "I", "D", ":">>

C15_IsValidName ==
    (fn = "isValidName" /\ pc = "returned") => (ret <=> ~Rejected(arg))

\* a noise word with capitals or white space around it has been rejected
C15_Witness ==
    /\ fn = "isValidName"
    /\ pc = "returned"
    /\ arg.t = "str"
    /\ arg.s \notin noise
    /\ toLowerCase(trim(arg.s)) \in noise
    /\ Len(trim(arg.s)) > 1
    /\ ~IsNumericString(arg.s)
    /\ ret = FALSE


(***************************************************************************)
(* C16.  When a record of the returned ledger has zone_id "unassigned" and *)
(* no zone of the master list has that id, the returned zone summaries     *)
(* hold a summary with id "unassigned" and name "External / Unlinked"      *)
(* whose recordCount, demand, collected and pending are those of exactly   *)
(* the unassigned records.                                                 *)
(***************************************************************************)
UnassignedRecords == SelectSeq(enriched, LAMBDA r : r.zone_id = unassigned)

C16_SyntheticUnassignedZone ==
    (/\ Done
     /\ UnassignedRecords # << >>
     /\ \A z \in 1..Len(zones) : String(zones[z].id) # unassigned)
    => \E k \in 1..Len(zoneMetrics) :
          /\ zoneMetrics[k].id = unassigned
          /\ zoneMetrics[k].name = Str(<<"E", "x", "t", "e", "r", "n", "a", "l", " ", "/", " ", "U", "n", "l", "i", "n", "k", "e", "d">>)
          /\ zoneMetrics[k].recordCount = Len(UnassignedRecords)
          /\ zoneMetrics[k].demand = SumOf(LAMBDA r : r.demand, UnassignedRecords)
          /\ zoneMetrics[k].collected = SumOf(LAMBDA r : r.collected, UnassignedRecords)
          /\ zoneMetrics[k].pending = SumOf(LAMBDA r : r.pending, UnassignedRecords)

\* an unassigned record with an amount beside a record of a master zone, and a master
\* list without "unassigned"
C16_Witness ==
    /\ Done
    /\ zones # << >>
    /\ \A z \in 1..Len(zones) : String(zones[z].id) # unassigned
    /\ \E j \in 1..Len(UnassignedRecords) : UnassignedRecords[j].demand + UnassignedRecords[j].collected > 0
    /\ \E j \in 1..Len(enriched) :
          \E z \in 1..Len(zones) : enriched[j].zone_id = trim(String(zones[z].id))
    /\ \E k \in 1..Len(zoneMetrics) : zoneMetrics[k].id = unassigned


(***************************************************************************)
(* C17.  The returned zone summaries hold a summary for every group of     *)
(* ledger records that share a zone_id, with the group's count and sums,   *)
(* and one for every zone of the master list; a summary that no record     *)
(* matches has recordCount, demand, collected and pending 0, and every     *)
(* summary has pending = demand - collected.                               *)
(***************************************************************************)
\* the ledger records of the zone z
Group(z) == SelectSeq(enriched, LAMBDA r : r.zone_id = z)

C17_SummaryPerGroup ==
    Done =>
        /\ \A j \in 1..Len(enriched) :
              \E k \in 1..Len(zoneMetrics) :
                  /\ zoneMetrics[k].id = enriched[j].zone_id
                  /\ zoneMetrics[k].recordCount = Len(Group(enriched[j].zone_id))
                  /\ zoneMetrics[k].demand =
                         SumOf(LAMBDA r : r.demand, Group(enriched[j].zone_id))
                  /\ zoneMetrics[k].collected =
                         SumOf(LAMBDA r : r.collected, Group(enriched[j].zone_id))
        /\ \A z \in 1..Len(zones) :
              \E k \in 1..Len(zoneMetrics) : zoneMetrics[k].id = trim(String(zones[z].id))
        /\ \A k \in 1..Len(zoneMetrics) :
              /\ zoneMetrics[k].pending = zoneMetrics[k].demand - zoneMetrics[k].collected
              /\ Group(zoneMetrics[k].id) = << >> =>
                     /\ zoneMetrics[k].recordCount = 0
                     /\ zoneMetrics[k].demand = 0
                     /\ zoneMetrics[k].collected = 0
                     /\ zoneMetrics[k].pending = 0


(***************************************************************************)
(* C18.  In the returned ledger no record's owner_name compares greater    *)
(* than that of the record after it, and the ledger holds every record of  *)
(* registryMap exactly once, with its pending, and nothing else.           *)
(***************************************************************************)
C18_LedgerSortedByOwnerName ==
    Done =>
        /\ \A j \in 1..(Len(enriched) - 1) :
              localeCompare(enriched[j].owner_name, enriched[j + 1].owner_name) <= 0
        /\ Len(enriched) = Len(registryMap)
        /\ \A j \in 1..Len(registryMap) :
              Cardinality({k \in 1..Len(enriched) :
                  enriched[k] = [registryMap[j] EXCEPT
                                    !.pending = registryMap[j].demand
                                                  - registryMap[j].collected]}) = 1

\* three records that registryMap holds in another order than the ledger, two of them
\* with names that differ
C18_Witness ==
    /\ Done
    /\ Len(enriched) = 3
    /\ \E j, k \in 1..Len(registryMap) :
          /\ j < k
          /\ localeCompare(registryMap[j].owner_name, registryMap[k].owner_name) > 0
    /\ \E j \in 1..2 :
          localeCompare(enriched[j].owner_name, enriched[j + 1].owner_name) < 0


(***************************************************************************)
(* C19.  In pass 1 an assessment row stores its guardian only for an id    *)
(* that has none, and changes no guardian already stored; the returned     *)
(* guardian map gives an id the guardian of the owner registry if it has   *)
(* one, and otherwise that of the first assessment row with a guardian,    *)
(* whatever the lengths of the guardians.                                  *)
(***************************************************************************)
\* the rows of a table with the id k that carry a guardian resolveGuardianName accepts
GuardianRows(rows, k) ==
    SelectSeq(RowsOf(rows, k), LAMBDA r : Truthy(resolveGuardianName(r)))

C19_Returned ==
    (Done /\ impl = "part_001") =>
        \A k \in IdsOf(owners) \cup IdsOf(assessments) :
            LET reg == GuardianRows(owners, k)
                asm == GuardianRows(assessments, k)
            IN  IF reg # << >>
                THEN /\ MapHas(masterGuardianMap, k)
                     /\ masterGuardianMap[k] = resolveGuardianName(reg[Len(reg)]).s
                ELSE IF asm # << >>
                THEN /\ MapHas(masterGuardianMap, k)
                     /\ masterGuardianMap[k] = resolveGuardianName(asm[1]).s
                ELSE ~MapHas(masterGuardianMap, k)

C19_Step ==
    pc = "names" =>
        /\ \A k \in DOMAIN masterGuardianMap :
              /\ MapHas(masterGuardianMap', k)
              /\ masterGuardianMap'[k] = masterGuardianMap[k]
        /\ \A k \in DOMAIN masterGuardianMap' :
              ~MapHas(masterGuardianMap, k) =>
                  /\ resolveId(assessments[i]) = Str(k)
                  /\ resolveGuardianName(assessments[i]) = Str(masterGuardianMap'[k])

\* C19.  A guardian from an assessment row only fills an id without a guardian: it
\* replaces neither the registry's guardian nor an earlier assessment row's.
C19_GuardianFillsGapsOnly == []C19_Returned /\ [][C19_Step]_vars

\* the registry gives an id a guardian and an assessment row a longer one, or two
\* assessment rows give it guardians, the later one longer; the first is returned
C19_Witness ==
    /\ Done
    /\ impl = "part_001"
    /\ \E k \in IdsOf(assessments) :
          LET reg == GuardianRows(owners, k)
              asm == GuardianRows(assessments, k)
              kept == masterGuardianMap[k]
          IN  /\ MapHas(masterGuardianMap, k)
              /\ \E x \in 1..Len(asm) : Len(resolveGuardianName(asm[x]).s) > Len(kept)
              /\ \/ reg # << >>
                 \/ Len(asm) > 1 /\ resolveGuardianName(asm[1]).s = kept


(***************************************************************************)
(* C20.  No two records of the returned ledger have the same id, and       *)
(* every id is a non-empty string that normalizeId returns unchanged, also *)
(* when rows of one table or of several tables spell one identifier in     *)
(* different case or with different white space.                           *)
(***************************************************************************)
C20_OneRecordPerId ==
    Done =>
        /\ \A j, k \in 1..Len(enriched) :
              enriched[j].assessment_no = enriched[k].assessment_no => j = k
        /\ \A j \in 1..Len(enriched) :
              /\ enriched[j].assessment_no # << >>
              /\ normalizeId(Str(enriched[j].assessment_no))
                    = Str(enriched[j].assessment_no)

\* two assessment rows and a demand or collection row spell one identifier in three
\* ways, and the ledger has one record
C20_Witness ==
    /\ Done
    /\ Len(enriched) = 1
    /\ \E x, y \in 1..Len(assessments) :
          \E z \in 1..Len(demands \o collections) :
              LET a == Get(assessments[x], "assessment_no")
                  b == Get(assessments[y], "assessment_no")
                  c == Get((demands \o collections)[z], "assessment_no")
              IN  /\ a # b
                  /\ a # c
                  /\ b # c
                  /\ resolveId(assessments[x]) = Str(enriched[1].assessment_no)
                  /\ resolveId(assessments[y]) = Str(enriched[1].assessment_no)
                  /\ resolveId((demands \o collections)[z]) = Str(enriched[1].assessment_no)


(***************************************************************************)
(* C21.  No step of the call changes its arguments: owners, assessments,   *)
(* demands, collections and the master zone list are after every step what *)
(* they were before it; the synthetic "unassigned" zone goes into the      *)
(* summaries and not into the master zone list.                            *)
(***************************************************************************)
C21_ArgumentsUnchanged ==
    [][<<owners, assessments, demands, collections, zones>>'
          = <<owners, assessments, demands, collections, zones>>]_vars

\* the call has returned the synthetic zone's summary, and the master zone list, which
\* is not empty, has no such zone
C21_Witness ==
    /\ Done
    /\ zones # << >>
    /\ \A z \in 1..Len(zones) : trim(String(zones[z].id)) # unassigned
    /\ \E k \in 1..Len(zoneMetrics) :
          /\ zoneMetrics[k].id = unassigned
          /\ zoneMetrics[k].recordCount > 0
    /\ Len(zoneMetrics) = Len(zones) + 1


(***************************************************************************)
(* C22.  resolveName returns the first of owner_name, name, owner,         *)
(* full_name, firstname, lastname, prop_owner, citizen_name,               *)
(* taxpayer_name, payer_name, user_name, display_name that isValidName     *)
(* accepts; when none is valid, the first valid value among the fields     *)
(* whose lower-cased key contains a name keyword, in field order; and      *)
(* null otherwise.  A result that is not null is trimmed and valid.        *)
(***************************************************************************)
CandidateOrder ==
    <<"owner_name", "name", "owner", "full_name", "firstname", "lastname",
      "prop_owner", "citizen_name", "taxpayer_name", "payer_name", "user_name",
      "display_name">>

\* the fields of obj, in field order, whose lower-cased key contains a name keyword
NameKeyed(obj) ==
    SelectSeq(Keys(obj), LAMBDA k :
        \E kw \in {<<"n", "a", "m", "e">>, <<"o", "w", "n", "e", "r">>, <<"c", "i", "t", "i", "z", "e", "n">>, <<"t", "a", "x", "p", "a", "y", "e", "r">>, <<"p", "a", "y", "e", "r">>, <<"f", "u", "l", "l">>, <<"p", "r", "o", "p", "_", "o", "w">>} :
            includes(toLowerCase(KeyChars(k)), kw))

C22_ResolveNameOrder ==
    (fn = "resolveName" /\ pc = "returned") =>
        LET direct == {x \in 1..Len(CandidateOrder) :
                          isValidName(Get(arg, CandidateOrder[x]))}
            keyed == NameKeyed(arg)
            scanned == {x \in 1..Len(keyed) : isValidName(arg[keyed[x]])}
        IN  /\ direct # {} =>
                  \E x \in direct :
                      /\ \A y \in direct : x <= y
                      /\ ret = Str(trim(String(arg[CandidateOrder[x]])))
            /\ (direct = {} /\ scanned # {}) =>
                  \E x \in scanned :
                      /\ \A y \in scanned : x <= y
                      /\ ret = Str(trim(String(arg[keyed[x]])))
            /\ (direct = {} /\ scanned = {}) => ret = Null
            /\ ret # Null => (isValidName(ret) /\ trim(ret.s) = ret.s)

\* a record whose first field is a valid keyword field, whose owner_name is noise, and
\* whose name and payer_name are valid: the name is returned, trimmed
C22_Witness ==
    /\ fn = "resolveName"
    /\ pc = "returned"
    /\ DOMAIN arg = NameFields
    /\ isValidName(arg["Citizen"])
    /\ ~isValidName(arg["owner_name"])
    /\ isValidName(arg["name"])
    /\ isValidName(arg["payer_name"])
    /\ ret = Str(trim(arg["name"].s))
    /\ ret # arg["name"]


(***************************************************************************)
(* C23.  categorizeDetails puts every field whose key is not a core key,   *)
(* in any case, and whose value is neither null nor empty into exactly one *)
(* category, the one of the first dictionary keyword its lower-cased key   *)
(* contains, else "Other Info"; nothing else is in the result, and no      *)
(* category of the result is empty.                                        *)
(***************************************************************************)
\* a field the claim says is placed
Placed(obj, k) ==
    /\ toLowerCase(KeyChars(k)) \notin {<<"a", "s", "s", "e", "s", "s", "m", "e", "n", "t", "_", "n", "o">>,
                                       <<"o", "w", "n", "e", "r", "_", "n", "a", "m", "e">>,
                                       <<"c", "l", "u", "s", "t", "e", "r", "_", "i", "d">>,
                                       <<"i", "d">>,
                                       <<"c", "r", "e", "a", "t", "e", "d", "_", "a", "t">>,
                                       <<"u", "p", "d", "a", "t", "e", "d", "_", "a", "t">>}
    /\ obj[k] # Null
    /\ obj[k] # Str(<< >>)

\* the categories of the result that hold the field k of obj under its label
HoldersOf(res, obj, k) ==
    {c \in DOMAIN res :
        [label |-> DisplayKey(KeyChars(k), TRUE), val |-> obj[k]] \in res[c]}

C23_EveryFieldInOneCategory ==
    (fn = "categorizeDetails" /\ pc = "returned") =>
        /\ \A k \in DOMAIN arg :
              IF Placed(arg, k)
              THEN HoldersOf(ret, arg, k) = {CategoryOf(KeyChars(k))}
              ELSE HoldersOf(ret, arg, k) = {}
        /\ \A c \in DOMAIN ret :
              /\ c \in categories
              /\ ret[c] # {}
              /\ \A e \in ret[c] :
                    \E k \in DOMAIN arg :
                        /\ Placed(arg, k)
                        /\ e = [label |-> DisplayKey(KeyChars(k), TRUE), val |-> arg[k]]


(***************************************************************************)
(* C24.  The ledger record of an id that the assessment table has carries  *)
(* the zone and the details of the last assessment row with that id: its   *)
(* zone_id is the trimmed text of that row's cluster_id when the row has   *)
(* one, and "unassigned" when it has none; the demand and collection rows  *)
(* of the id have not changed it.                                          *)
(***************************************************************************)
\* the last assessment row with the id k
LastAssessment(k) == RowsOf(assessments, k)[Len(RowsOf(assessments, k))]

C24_SeededZone ==
    Done =>
        \A k \in IdsOf(assessments) :
            LET a == LastAssessment(k)
                cluster == Get(a, "cluster_id")
            IN  /\ Len(Entries(k)) = 1
                /\ Entries(k)[1].zone_id =
                       IF cluster.t \in {"null", "undefined"} THEN unassigned
                       ELSE trim(String(cluster))
                /\ impl = "part_001" =>
                       Entries(k)[1].details = [present |-> TRUE,
                                                entries |-> categorizeDetails(a)]

\* the pages of the fetch are asked for in page order, 1000 rows each, and what is
\* collected is the answers in that order; an error or a short page is the last one
C25_Pages ==
    /\ \A j \in 1..Len(fetch.requests) :
          fetch.requests[j] = [from |-> (j - 1) * 1000, to |-> j * 1000 - 1]
    /\ Len(fetch.allData) <= Len(fetch.requests)
    /\ \A j \in 1..Len(fetch.allData) :
          /\ fetch.allData[j].from = fetch.requests[j].from
          /\ fetch.allData[j].len \in 1..1000
          /\ j < Len(fetch.allData) => fetch.allData[j].len = 1000
          /\ fetch.allData[j].len < 1000 => fetch.pc = "returned"
    /\ fetch.error => fetch.pc = "returned"
    /\ fetch.pc = "loop" => Len(fetch.allData) = Len(fetch.requests)
    /\ (fetch.pc = "returned" /\ ~fetch.error /\ ~fetch.changed) =>
          \A r \in 0..(fetch.table - 1) :
             Cardinality({j \in 1..Len(fetch.allData) :
                             /\ fetch.allData[j].from <= r
                             /\ r < fetch.allData[j].from + fetch.allData[j].len}) = 1

\* a fetch that has returned asks for nothing more
C25_Stops == fetch.pc = "returned" => fetch' = fetch

\* C25: the paginated fetch terminates; it asks for pages of 1000 rows in increasing
\* page order, stops at the first page that answers with an error, with no rows or
\* with fewer than 1000 rows, and returns the pages read so far in page order; when no
\* request fails and the table does not change, every row is returned exactly once
C25_PaginatedFetch ==
    /\ []C25_Pages
    /\ [][C25_Stops]_vars
    /\ <>(fetch.pc = "returned")

\* a table of more than two pages has been read to its end, three pages
C25_Witness ==
    /\ fetch.pc = "returned"
    /\ ~fetch.error
    /\ ~fetch.changed
    /\ fetch.table > 2 * pageSize
    /\ Len(fetch.allData) = 3

\* the record of id k in a ledger under construction; no record if the id has none
RecordOf(reg, k) ==
    IF RegHas(reg, k) THEN <<reg[RegIndex(reg, k)]>> ELSE << >>

\* a fold of one row of id k that may change field amount only: the other records stay
\* as they are and in their places, the record of k keeps its other fields, and a
\* record made for k is unassigned, without details, and nothing but amount is counted
FoldFrame(k, amount, rest) ==
    /\ \A j \in 1..Len(registryMap) :
          /\ j <= Len(registryMap')
          /\ registryMap'[j].assessment_no = registryMap[j].assessment_no
          /\ registryMap[j].assessment_no # k => registryMap'[j] = registryMap[j]
          /\ registryMap[j].assessment_no = k =>
                registryMap'[j] = [registryMap[j] EXCEPT ![amount] = registryMap'[j][amount]]
    /\ Len(registryMap') = Len(registryMap) + (IF RegHas(registryMap, k) THEN 0 ELSE 1)
    /\ ~RegHas(registryMap, k) =>
          LET made == registryMap'[Len(registryMap')]
          IN  /\ made.assessment_no = k
              /\ made.zone_id = unassigned
              /\ made.details = NoDetails
              /\ made[rest] = 0
              /\ made.pending = 0

C26_Step ==
    /\ pc = "demands" =>
          IF Truthy(resolveId(demands[i]))
          THEN FoldFrame(resolveId(demands[i]).s, "demand", "collected")
          ELSE registryMap' = registryMap
    /\ pc = "collections" =>
          IF Truthy(resolveId(collections[i]))
          THEN FoldFrame(resolveId(collections[i]).s, "collected", "demand")
          ELSE registryMap' = registryMap

\* C26: folding a demand row of id k changes the demand of the record of k only, a
\* record made first if k has none: its names, zone, details and collected and every
\* other record stay as they are; folding a collection row changes collected only
C26_FoldChangesOneAmount == [][C26_Step]_vars

\* a demand row and a collection row have been folded into a ledger of two records,
\* one of them in a zone
C26_Witness ==
    /\ Done
    /\ Len(registryMap) = 2
    /\ \E j \in 1..2 : registryMap[j].zone_id # unassigned /\ registryMap[j].demand > 0
    /\ \E j \in 1..2 : registryMap[j].collected > 0

\* the entries of a name map are names isValidName accepts, without "[ID:" in them,
\* under ids that are not empty and that normalizeId leaves as they are
ValidNames(map) ==
    \A k \in DOMAIN map :
       /\ isValidName(Str(map[k]))
       /\ ~includes(map[k], <<"[", "I", "D", ":">>)
       /\ k # << >>
       /\ normalizeId(Str(k)) = Str(k)

\* C27: every value of the name map and of the guardian map is a name isValidName
\* accepts, under a normalized id that is not empty; no value holds "[ID:", so no
\* placeholder name is stored, also when a source row has one as its name
C27_MapsHoldValidNames ==
    /\ ValidNames(masterNameMap)
    /\ ValidNames(masterGuardianMap)

\* an assessment row is named by a placeholder and has a guardian: the call returns
\* with the guardian in the guardian map and with a name map that is not empty
C27_Witness ==
    /\ Done
    /\ DOMAIN masterNameMap # {}
    /\ \E j \in 1..Len(assessments) :
          /\ includes(String(Get(assessments[j], "owner_name")), <<"[", "I", "D", ":">>)
          /\ MapHas(masterGuardianMap, resolveId(assessments[j]).s)

C28_Step == app.status # "loading" => app'.status # "loading"

\* C28: in whatever order getSession resolves and the authentication events come,
\* status is 'authenticated' only with a user that is not null, so the Dashboard is
\* never rendered with a null user, and status does not return to 'loading'
C28_AuthenticatedHasUser ==
    /\ [](app.status = "authenticated" => app.user # Null)
    /\ [](View.screen = "Dashboard" => View.user # Null)
    /\ [][C28_Step]_vars

\* a sign-out has been heard and the session of getSession has come after it: the
\* Dashboard is rendered
C28_Witness ==
    /\ app.status = "authenticated"
    /\ app.getSession = "resolved"
    /\ app.events = 2
    /\ app.user.role = Str(<<"U", "S", "E", "R">>)

\* C29: isSyncing is set in every state in which a call of syncData, loadZoneOwners,
\* openOwner or openAssessment has started and has not ended, also when calls
\* overlap, and is not set once all of them have ended, however they ended
C29_SyncingWhileRunning ==
    /\ dash.calls # << >> => dash.isSyncing
    /\ (dash.calls = << >> /\ dash.effect = "run") => ~dash.isSyncing

\* the part of C29 about the end: with no call running after the first one started,
\* isSyncing is not set
C29_IdleNotSyncing ==
    (dash.calls = << >> /\ dash.effect = "run") => ~dash.isSyncing

\* what a run that is done has computed
Computed(run) ==
    [metrics |-> MetricsOf(run.assessmentCount, run.totalDemand, Len(run.collectionRows)),
     collections |-> ByDateDescending(run.collectionRows)]

\* C30: when runs of fetchRealTimeStats overlap, once all of them are done the
\* metrics and the collection list on display are those of the run that was started
\* last, in whatever order the runs ended
C30_LatestRunWins ==
    (/\ Len(stats.runs) > 1
     /\ stats.notifications = 0
     /\ \A k \in 1..Len(stats.runs) : stats.runs[k].pc = "done") =>
        /\ stats.metrics = Computed(stats.runs[Len(stats.runs)]).metrics
        /\ stats.collections = Computed(stats.runs[Len(stats.runs)]).collections

====
